---- MODULE Spec2Model ----
(***************************************************************************)
(* Target-local storage core of the object store: the mountpath registry   *)
(* (fs/mountfs.go), the bucket-directory lifecycle (fs/mountfs.go) and the *)
(* target-side transaction coordinator (ais/tgttxn.go).                    *)
(*                                                                         *)
(* Sixteen specifications share the variables:                             *)
(*   SpecMfs  - the registry under InitMpaths/Add/Enable/Disable/Remove    *)
(*   SpecHist - SpecMfs observed through the history of its calls          *)
(*   SpecGet  - SpecMfs plus a lock-free reader running Get()              *)
(*   SpecRen  - RenameBucketDirs over arbitrary on-disk bucket directories *)
(*   SpecTxn  - begin/commit/abort of the four bucket transactions         *)
(*   SpecSweep - SpecTxn's table under the clock and the sweeper, fair     *)
(*   SpecCap  - RefreshCapStatus and the capacity gate of a direct PUT     *)
(*   SpecPath - path composition through the bucket-path cache             *)
(*   SpecBoot - InitMpaths from any configuration, VMD and disk state      *)
(*   SpecCreate - the create-bucket transaction and the arrival of the BMD *)
(*   SpecDestroy - DestroyBucket and the passes of MoveToTrash, fair       *)
(*   SpecProps - SetBucketProps from any mirror configuration              *)
(*   SpecPoll - the polling loop of an asynchronous request (api/bucket.go)*)
(*   SpecCb   - Add/Disable/Remove with and without a callback             *)
(*   SpecSnap - the registry maps as objects, held by a caller of Get()    *)
(*   SpecRefresh - RefreshCapStatus by two callers side by side            *)
(***************************************************************************)
EXTENDS Integers, Sequences, FiniteSets, TLC

VARIABLES
    \* ---- MountedFS (mfs) ----
    available,   \* mfs.available: <<>> is the nil pointer, <<S>> a published MPI
    disabled,    \* mfs.disabled: same
    fsIDs,       \* mfs.fsIDs: function fsid -> mountpath
    checkFsID,   \* mfs.checkFsID
    ios,         \* mountpaths registered in the IO-stat tracker (mfs.ios)
    xattr,       \* user.ais.daemon_id stored on each mountpath root
    wr,          \* a mutation between its two pointer stores: <<>> or <<rec>>
    ret,         \* what the last registry call returned
    tracing,     \* whether ret is recorded (it is observation, not state)
    halted,      \* InitMpaths failed: the target does not start
    hist,        \* <<>>, or <<h>> where the calls are observed: h.added, the mountpaths whose
                 \* Add (or InitMpaths) succeeded and that no Remove took out
                 \* since; uniq, no two registered mountpaths ever shared a
                 \* filesystem
    \* ---- a reader of Get() ----
    rd,          \* the reader's position, the two loaded maps, and whether the
                 \* pair belongs to no single epoch (torn)
    live,        \* during its Get(): n, the epochs published since it began,
                 \* and ok, the Disabled maps of the epochs whose Available
                 \* map is the one it loaded
    \* ---- bucket directories ----
    dirs,        \* content of each bucket directory on each mountpath
    bpc,         \* mi.bpc.m of each mountpath: bid -> bucket directory
    rnRet,       \* what the last RenameBucketDirs returned
    \* ---- transaction coordinator ----
    txns,        \* t.transactions: uuid -> pending record
    waiting,     \* uuid -> the commit request blocked in transactions.wait
    bmdVer,      \* version of the locally installed BMD
    bmdBcks,     \* the locally installed BMD: bucket name -> its props
    capErr,      \* the capacity status carries a high-watermark/OOS error
    tret,        \* the request handled by the last step and what it returned;
                 \* <<>> when the last step was not a step of a request
    fx,          \* the side effects that request has performed so far
    \* ---- capacity monitor ----
    capacity,    \* mi.capacity of each mountpath
    capStatus,   \* mfs.capStatus, the cached aggregate
    capTime,     \* mfs.capTime: curr and next, in seconds since the refresh
    capRet,      \* what the last RefreshCapStatus returned, and its inputs
    putRet,      \* what the last direct PUT did and returned; capRet and
                 \* putRet describe the last step: the other one is <<>>
    \* ---- path composer ----
    pcRet,       \* the last call of the composer: its arguments, its result
                 \* and the mountpath's cache before the call
    owner,       \* the BMD's bucket ids: bid -> the bucket that carries it,
                 \* <<>> while the bid is not assigned
    \* ---- boot ----
    boot,        \* <<>>, or <<b>> where the boot is observed: b.called, whether
                 \* InitMpaths was called; its arguments b.order and b.vmd;
                 \* b.ios, b.xattr, b.fsIDs as they were before the call
    \* ---- one process at work ----
    lc           \* <<>>, or <<c>>: the last CreateBucket with its arguments and
                 \* results, the DestroyBucket in progress or returned, the
                 \* poll of an asynchronous request, the registry's map
                 \* objects, or the refreshers of the capacity status

mfsVars == <<available, disabled, fsIDs, checkFsID, ios, xattr, wr, ret,
             tracing, halted, hist>>
getVars == <<rd, live>>
renVars == <<dirs, bpc, rnRet>>
txnVars == <<txns, waiting, bmdVer, bmdBcks, capErr, tret, fx>>
capVars == <<capacity, capStatus, capTime, capRet, putRet>>
pathVars == <<pcRet, owner>>
vars == <<mfsVars, getVars, renVars, txnVars, capVars, pathVars, boot, lc>>

----------------------------------------------------------------------------
\* Bounds of the model

NumMpaths == 3      \* mountpath directories 1..NumMpaths
MaxRace == 2        \* registry epochs published while one Get() is running

Mpaths == 1..NumMpaths

\* what a caller may pass as mpath: 0 is a path ValidateMpath rejects, -p an
\* unnormalised spelling of p (trailing separator), p the clean path
RawMpaths == (0 - NumMpaths)..NumMpaths

\* transaction ids, and the names of the two buckets
UUIDs == {"u1", "u2"}
BckNames == {<<"a">>, <<"b">>}

NoTid == ""
T1 == "t1"          \* this target's daemon id
T2 == "t2"          \* another target's daemon id

\* makeFsInfo: mountpaths 1 and 2 live on one filesystem
FsID(p) == IF p = 2 THEN 1 ELSE p

\* ios.FsDisks of the mountpath's filesystem: mountpath 3 has none
Disks(p) == IF p = 3 THEN {} ELSE {p}

\* config.MDWrite and config.TestingEnv(): a production configuration
MDWriteNever == FALSE
TestingEnv == FALSE

----------------------------------------------------------------------------
\* fs/mountfs.go: MountpathInfo and MountedFS helpers

\* cmn.ValidateMpath: the cleaned path, or an error
ValidateMpath(mpath) ==
    IF mpath = 0 THEN [err |-> "ErrInvalidPath", clean |-> 0]
    ELSE [err |-> "nil", clean |-> IF mpath < 0 THEN 0 - mpath ELSE mpath]

newMountpath(mpath) == ValidateMpath(mpath)

\* Get(): nil pointers read as empty maps
GetAvail(a) == IF a = <<>> THEN {} ELSE a[1]
Get == <<GetAvail(available), GetAvail(disabled)>>

\* NumAvail(): len(*availablePaths) of the loaded pointer; the dereference of
\* a nil pointer panics
NumAvail ==
    IF available = <<>> THEN [panic |-> TRUE, n |-> 0]
    ELSE [panic |-> FALSE, n |-> Cardinality(available[1])]

\* the working state of a mutation: the clones and the lock-protected fields
\* (cloneMPI); pub says whether updatePaths was reached
Clone == [err |-> "nil", pub |-> FALSE, changed |-> FALSE,
          avail |-> Get[1], dis |-> Get[2], fsIDs |-> fsIDs,
          ios |-> ios, xattr |-> xattr]

checkExists(p, availablePaths, ids, chk) ==
    IF p \in availablePaths THEN "ErrDuplicatePath"
    ELSE IF FsID(p) \in DOMAIN ids /\ chk THEN "ErrFsidConflict"
    ELSE "nil"

SetDaemonIDXattr(p, tid, xa) ==
    IF xa[p] = tid THEN [err |-> "nil", xattr |-> xa]
    ELSE IF xa[p] # NoTid /\ xa[p] # tid
         THEN [err |-> "ErrMpathIdMismatch", xattr |-> xa]
    ELSE [err |-> "nil", xattr |-> [xa EXCEPT ![p] = tid]]

\* ios.AddMpath: registers the mountpath; a second registration is an error
iosAddMpath(p, st) ==
    IF p \in st.ios THEN [st EXCEPT !.err = "ErrIosDuplicate"]
    ELSE [st EXCEPT !.ios = @ \cup {p}]

addEnabled(p, tid, st) ==
    LET st1 == iosAddMpath(p, st) IN
    IF st1.err # "nil" THEN st1
    ELSE IF tid # NoTid /\ ~MDWriteNever
         THEN LET x == SetDaemonIDXattr(p, tid, st1.xattr) IN
              IF x.err # "nil" THEN [st1 EXCEPT !.err = x.err]
              ELSE [st1 EXCEPT !.xattr = x.xattr, !.avail = @ \cup {p}]
    ELSE [st1 EXCEPT !.avail = @ \cup {p}]

SetFsID(ids, p) == [f \in DOMAIN ids \cup {FsID(p)} |->
                      IF f = FsID(p) THEN p ELSE ids[f]]
DelFsID(ids, p) == [f \in DOMAIN ids \ {FsID(p)} |-> ids[f]]

NoDisks(p) == Disks(p) = {} /\ ~TestingEnv

addEnabledDisabled(p, tid, enabled, st) ==
    LET st1 == IF enabled
               THEN LET e == checkExists(p, st.avail, st.fsIDs, checkFsID) IN
                    IF e # "nil" THEN [st EXCEPT !.err = e]
                    ELSE addEnabled(p, tid, st)
               ELSE [st EXCEPT !.dis = @ \cup {p}]
    IN IF st1.err # "nil" THEN st1
       ELSE [st1 EXCEPT !.fsIDs = SetFsID(@, p), !.pub = TRUE]

enable(cleanMpath, tid, st) ==
    IF cleanMpath \in st.avail THEN st
    ELSE IF cleanMpath \notin st.dis THEN [st EXCEPT !.err = "ErrNoMountpath"]
    ELSE LET e == checkExists(cleanMpath, st.avail, st.fsIDs, checkFsID) IN
         IF e # "nil" THEN [st EXCEPT !.err = e]
         ELSE LET st1 == addEnabled(cleanMpath, tid, st) IN
              IF st1.err # "nil" THEN st1
              ELSE [st1 EXCEPT !.dis = @ \ {cleanMpath},
                               !.fsIDs = SetFsID(@, cleanMpath),
                               !.pub = TRUE]

\* Remove, after ValidateMpath: the xattr is cleared before the lookup
remove(cleanMpath, st) ==
    LET st0 == [st EXCEPT !.xattr[cleanMpath] = NoTid] IN
    IF cleanMpath \notin st0.avail
    THEN IF cleanMpath \notin st0.dis
         THEN [st0 EXCEPT !.err = "ErrNoMountpath"]
         ELSE [st0 EXCEPT !.dis = @ \ {cleanMpath},
                          !.fsIDs = DelFsID(@, cleanMpath),
                          !.pub = TRUE]
    ELSE [st0 EXCEPT !.ios = @ \ {cleanMpath},
                     !.avail = @ \ {cleanMpath},
                     !.fsIDs = DelFsID(@, cleanMpath),
                     !.pub = TRUE]

\* variant: Disable leaves the mountpath registered in the IO-stat tracker
disableKeepsIos(cleanMpath, st) ==
    IF cleanMpath \in st.avail
    THEN [st EXCEPT !.dis = @ \cup {cleanMpath},
                    !.avail = @ \ {cleanMpath},
                    !.pub = TRUE]
    ELSE IF cleanMpath \in st.dis THEN st
    ELSE [st EXCEPT !.err = "ErrNoMountpath"]

\* Disable, after ValidateMpath
disable(cleanMpath, st) ==
    IF cleanMpath \in st.avail
    THEN [st EXCEPT !.dis = @ \cup {cleanMpath},
                    !.ios = @ \ {cleanMpath},
                    !.avail = @ \ {cleanMpath},
                    !.pub = TRUE]
    ELSE IF cleanMpath \in st.dis THEN st
    ELSE [st EXCEPT !.err = "ErrNoMountpath"]

\* InitMpaths, no VMD: the loop over configPaths in one iteration order
RECURSIVE initNoVMD(_, _, _)
initNoVMD(order, tid, st) ==
    IF order = <<>> \/ st.err # "nil" THEN st
    ELSE LET p == Head(order)
             e == checkExists(p, st.avail, st.fsIDs, checkFsID)
             st1 == IF e # "nil" THEN [st EXCEPT !.err = e]
                    ELSE addEnabled(p, tid, st)
             st2 == IF st1.err = "nil" /\ NoDisks(p)
                    THEN [st1 EXCEPT !.err = "ErrMpathNoDisks"] ELSE st1
         IN initNoVMD(Tail(order), tid, st2)

\* InitMpaths, existing VMD (vmd.Mountpaths: path -> enabled)
RECURSIVE initWithVMD(_, _, _, _)
initWithVMD(order, tid, mountpaths, st) ==
    IF order = <<>> \/ st.err # "nil" THEN st
    ELSE LET p == Head(order)
             exists == p \in DOMAIN mountpaths
             enabled == IF exists THEN mountpaths[p] ELSE TRUE
             st0 == [st EXCEPT !.changed = @ \/ ~exists]
             e == checkExists(p, st0.avail, st0.fsIDs, checkFsID)
             st1 == IF ~enabled THEN [st0 EXCEPT !.dis = @ \cup {p}]
                    ELSE IF e # "nil" THEN [st0 EXCEPT !.err = e]
                    ELSE addEnabled(p, tid, st0)
             st2 == IF enabled /\ st1.err = "nil" /\ NoDisks(p)
                    THEN [st1 EXCEPT !.err = "ErrMpathNoDisks"] ELSE st1
             st3 == [st2 EXCEPT !.fsIDs = SetFsID(@, p)]
         IN initWithVMD(Tail(order), tid, mountpaths, st3)

\* CreateNewVMD: the document written from the registry
NewVMD(tid, avail, dis) ==
    [DaemonID |-> tid, Mountpaths |-> [p \in avail \cup dis |-> p \in avail]]

\* variant: the daemon id of the VMD is compared after the configured paths
\* were processed
initMpathsLateIdCheck(order, tid, vmd) ==
    LET configPaths == {order[i] : i \in DOMAIN order}
        fresh == [Clone EXCEPT !.avail = {}, !.dis = {}]
    IN IF configPaths = {} THEN [fresh EXCEPT !.err = "ErrNoFspaths"]
       ELSE IF vmd = <<>>
            THEN LET st == initNoVMD(order, tid, fresh) IN
                 IF st.err # "nil" THEN st ELSE [st EXCEPT !.pub = TRUE]
       ELSE LET st == initWithVMD(order, tid, vmd[1].Mountpaths, fresh)
                more == Cardinality(DOMAIN vmd[1].Mountpaths)
                            > Cardinality(configPaths)
                        /\ \E m \in DOMAIN vmd[1].Mountpaths : m \notin configPaths
            IN IF st.err # "nil" THEN st
               ELSE IF vmd[1].DaemonID # tid
                    THEN [st EXCEPT !.err = "ErrVmdIdMismatch"]
               ELSE [st EXCEPT !.pub = TRUE, !.changed = @ \/ more]

\* variant: a VMD path that the configuration lacks is not looked for
initMpathsNoDrift(order, tid, vmd) ==
    LET configPaths == {order[i] : i \in DOMAIN order}
        fresh == [Clone EXCEPT !.avail = {}, !.dis = {}]
    IN IF configPaths = {} THEN [fresh EXCEPT !.err = "ErrNoFspaths"]
       ELSE IF vmd = <<>>
            THEN LET st == initNoVMD(order, tid, fresh) IN
                 IF st.err # "nil" THEN st ELSE [st EXCEPT !.pub = TRUE]
       ELSE IF vmd[1].DaemonID # tid
            THEN [fresh EXCEPT !.err = "ErrVmdIdMismatch"]
       ELSE LET st == initWithVMD(order, tid, vmd[1].Mountpaths, fresh)
            IN IF st.err # "nil" THEN st ELSE [st EXCEPT !.pub = TRUE]

initMpaths(order, tid, vmd) ==
    LET configPaths == {order[i] : i \in DOMAIN order}
        fresh == [Clone EXCEPT !.avail = {}, !.dis = {}]
    IN IF configPaths = {} THEN [fresh EXCEPT !.err = "ErrNoFspaths"]
       ELSE IF vmd = <<>>
            THEN LET st == initNoVMD(order, tid, fresh) IN
                 IF st.err # "nil" THEN st ELSE [st EXCEPT !.pub = TRUE]
       ELSE IF vmd[1].DaemonID # tid
            THEN [fresh EXCEPT !.err = "ErrVmdIdMismatch"]
       ELSE LET st == initWithVMD(order, tid, vmd[1].Mountpaths, fresh)
                more == Cardinality(DOMAIN vmd[1].Mountpaths)
                            > Cardinality(configPaths)
                        /\ \E m \in DOMAIN vmd[1].Mountpaths : m \notin configPaths
            IN IF st.err # "nil" THEN st
               ELSE [st EXCEPT !.pub = TRUE, !.changed = @ \/ more]

----------------------------------------------------------------------------
\* The registry's operations. A mutation runs under mfs.mu; updatePaths stores
\* the two pointers one after the other, so a call that publishes takes two
\* steps: everything up to available.Store, then disabled.Store and the rest.

\* vmd: the document CreateNewVMD wrote during the call, <<>> when none
Ret(op, err, mi, changed, cb, vmd) ==
    [op |-> op, err |-> err, mi |-> mi, changed |-> changed, cb |-> cb,
     vmd |-> vmd]

\* (the reader's return is local to it: it is taken as soon as it is enabled)
muFree ==
    /\ wr = <<>>
    /\ ~halted
    /\ rd.pc # "done"
    /\ rd.pc = "mid" => live.n < MaxRace

\* the history is kept only where it is observed: <<>> when it is not
NoHist == <<>>
EmptyHist == <<[added |-> {}, uniq |-> TRUE]>>

\* the history h after a call that returned r and left the clones st
Record(h, st, r) ==
    [added |-> IF r.err # "nil" THEN h.added
               ELSE IF r.op \in {"Add", "AddMpath"} THEN h.added \cup {r.mi}
               ELSE IF r.op = "Remove" THEN h.added \ {r.mi}
               ELSE IF r.op = "InitMpaths" THEN st.avail \cup st.dis
               ELSE h.added,
     uniq |-> /\ h.uniq
              /\ \A p, q \in st.avail \cup st.dis : FsID(p) = FsID(q) => p = q]

\* updatePaths(st.avail, st.dis) when the call reached it, and the return
Apply(st, r) ==
    /\ fsIDs' = st.fsIDs
    /\ hist' = IF hist = <<>> THEN hist ELSE <<Record(hist[1], st, r)>>
    /\ ios' = st.ios
    /\ xattr' = st.xattr
    /\ IF st.pub
       THEN /\ available' = <<st.avail>>
            /\ wr' = <<[disabled |-> st.dis, ret |-> IF tracing THEN r ELSE ret]>>
            /\ live' = IF rd.pc # "mid" THEN live
                       ELSE [n |-> live.n + 1,
                             ok |-> IF rd.avail = st.avail
                                    THEN live.ok \cup {st.dis} ELSE live.ok]
            /\ UNCHANGED <<disabled, ret>>
       ELSE /\ ret' = IF tracing THEN r ELSE ret
            /\ UNCHANGED <<available, disabled, wr, live>>

\* the second store of updatePaths, then what the call does before returning
StoreDisabled ==
    /\ wr # <<>>
    /\ rd.pc # "done"
    /\ disabled' = <<wr[1].disabled>>
    /\ ret' = IF tracing THEN wr[1].ret ELSE ret
    /\ wr' = <<>>
    /\ UNCHANGED <<available, fsIDs, checkFsID, ios, xattr, tracing, halted, hist>>
    /\ UNCHANGED <<rd, live, renVars, txnVars, capVars, pathVars, boot, lc>>

InitMpaths(order, vmd) ==
    /\ muFree
    /\ available = <<>>
    /\ LET st == initMpaths(order, T1, vmd)
           doc == IF st.pub /\ (vmd = <<>> \/ st.changed)
                  THEN <<NewVMD(T1, st.avail, st.dis)>> ELSE <<>>
       IN /\ Apply(st, Ret("InitMpaths", st.err, 0, st.changed, FALSE, doc))
          /\ halted' = (st.err # "nil")
    /\ boot' = IF boot = <<>> THEN boot
               ELSE <<[called |-> TRUE, order |-> order, vmd |-> vmd,
                       ios |-> ios, xattr |-> xattr, fsIDs |-> fsIDs]>>
    /\ UNCHANGED <<checkFsID, tracing, rd, renVars, txnVars, capVars, pathVars, lc>>

Add(mpath, tid) ==
    /\ muFree
    /\ LET nm == newMountpath(mpath)
           st == IF nm.err # "nil" THEN [Clone EXCEPT !.err = nm.err]
                 ELSE addEnabledDisabled(nm.clean, tid, TRUE, Clone)
       IN Apply(st, Ret("Add", st.err, nm.clean, FALSE, FALSE, <<>>))
    /\ UNCHANGED <<checkFsID, tracing, halted, rd, renVars, txnVars, capVars, pathVars, boot, lc>>

AddMpath(mpath, tid) ==
    /\ muFree
    /\ LET nm == newMountpath(mpath)
           st == IF nm.err # "nil" THEN [Clone EXCEPT !.err = nm.err]
                 ELSE addEnabledDisabled(nm.clean, tid, TRUE, Clone)
           err == IF st.err = "nil" /\ NoDisks(nm.clean)
                  THEN "ErrMpathNoDisks" ELSE st.err
       IN Apply(st, Ret("AddMpath", err, nm.clean, FALSE, err = "nil", <<>>))
    /\ UNCHANGED <<checkFsID, tracing, halted, rd, renVars, txnVars, capVars, pathVars, boot, lc>>

Enable(mpath) ==
    /\ muFree
    /\ LET v == ValidateMpath(mpath)
           st == IF v.err # "nil" THEN [Clone EXCEPT !.err = v.err]
                 ELSE enable(v.clean, NoTid, Clone)
       IN Apply(st, Ret("Enable", st.err, IF st.pub THEN v.clean ELSE 0,
                        FALSE, FALSE, <<>>))
    /\ UNCHANGED <<checkFsID, tracing, halted, rd, renVars, txnVars, capVars, pathVars, boot, lc>>

EnableMpath(mpath, tid) ==
    /\ muFree
    /\ LET v == ValidateMpath(mpath)
           st == IF v.err # "nil" THEN [Clone EXCEPT !.err = v.err]
                 ELSE enable(v.clean, tid, Clone)
       IN Apply(st, Ret("EnableMpath", st.err, IF st.pub THEN v.clean ELSE 0,
                        FALSE, v.err = "nil" /\ st.err = "nil", <<>>))
    /\ UNCHANGED <<checkFsID, tracing, halted, rd, renVars, txnVars, capVars, pathVars, boot, lc>>

Remove(mpath, hasCb) ==
    /\ muFree
    /\ LET v == ValidateMpath(mpath)
           st == IF v.err # "nil" THEN [Clone EXCEPT !.err = v.err]
                 ELSE remove(v.clean, Clone)
           cb == /\ st.pub
                 /\ v.clean \in Get[1]
                 /\ st.avail # {}
                 /\ hasCb
       IN Apply(st, Ret("Remove", st.err, IF st.pub THEN v.clean ELSE 0,
                        FALSE, cb, <<>>))
    /\ UNCHANGED <<checkFsID, tracing, halted, rd, renVars, txnVars, capVars, pathVars, boot, lc>>

\* variant: the callback also runs when the last Available mountpath goes
DisableCbOnLast(mpath, hasCb) ==
    /\ muFree
    /\ LET v == ValidateMpath(mpath)
           st == IF v.err # "nil" THEN [Clone EXCEPT !.err = v.err]
                 ELSE disable(v.clean, Clone)
           cb == st.pub /\ hasCb
       IN Apply(st, Ret("Disable", st.err, IF st.pub THEN v.clean ELSE 0,
                        FALSE, cb, <<>>))
    /\ UNCHANGED <<checkFsID, tracing, halted, rd, renVars, txnVars, capVars, pathVars, boot, lc>>

Disable(mpath, hasCb) ==
    /\ muFree
    /\ LET v == ValidateMpath(mpath)
           st == IF v.err # "nil" THEN [Clone EXCEPT !.err = v.err]
                 ELSE disable(v.clean, Clone)
           cb == st.pub /\ st.avail # {} /\ hasCb
       IN Apply(st, Ret("Disable", st.err, IF st.pub THEN v.clean ELSE 0,
                        FALSE, cb, <<>>))
    /\ UNCHANGED <<checkFsID, tracing, halted, rd, renVars, txnVars, capVars, pathVars, boot, lc>>

\* not under mfs.mu
DisableFsIDCheck ==
    /\ ~halted
    /\ rd.pc # "done"
    /\ checkFsID
    /\ checkFsID' = FALSE
    /\ UNCHANGED <<available, disabled, fsIDs, ios, xattr, wr, ret, tracing,
                   halted, hist, rd, live, renVars, txnVars, capVars, pathVars, boot, lc>>

\* Get() by a reader that holds no lock: two atomic loads
\* (readers are request handlers: they run once the target has booted)
GetLoadAvailable ==
    /\ rd.pc = "idle"
    /\ disabled # <<>>
    /\ rd' = [pc |-> "mid", avail |-> GetAvail(available), dis |-> {},
              torn |-> FALSE]
    /\ live' = [n |-> 0,
                ok |-> {IF wr # <<>> THEN wr[1].disabled
                        ELSE GetAvail(disabled)}]
    /\ UNCHANGED <<mfsVars, renVars, txnVars, capVars, pathVars, boot, lc>>

GetLoadDisabled ==
    /\ rd.pc = "mid"
    /\ rd' = [rd EXCEPT !.pc = "done", !.dis = GetAvail(disabled),
                         !.torn = GetAvail(disabled) \notin live.ok]
    /\ live' = [n |-> 0, ok |-> {}]
    /\ UNCHANGED <<mfsVars, renVars, txnVars, capVars, pathVars, boot, lc>>

GetReturn ==
    /\ rd.pc = "done"
    /\ rd' = [pc |-> "idle", avail |-> {}, dis |-> {}, torn |-> FALSE]
    /\ UNCHANGED <<live, mfsVars, renVars, txnVars, capVars, pathVars, boot, lc>>

\* the inputs of InitMpaths
Orders(S) == {o \in [1..Cardinality(S) -> S] :
                \A i, j \in 1..Cardinality(S) : i # j => o[i] # o[j]}
ConfigOrders == UNION {Orders(S) : S \in SUBSET Mpaths}
VMDs == {<<>>} \cup
        {<<[DaemonID |-> d, Mountpaths |-> m]>> :
            d \in {T1, T2}, m \in UNION {[S -> BOOLEAN] : S \in SUBSET Mpaths}}

NextMfs ==
    \/ \E order \in ConfigOrders, vmd \in VMDs : InitMpaths(order, vmd)
    \/ \E mpath \in RawMpaths : Add(mpath, T1)
    \/ \E mpath \in RawMpaths : AddMpath(mpath, T1)
    \/ \E mpath \in RawMpaths : Enable(mpath)
    \/ \E mpath \in RawMpaths : EnableMpath(mpath, T1)
    \/ \E mpath \in RawMpaths, hasCb \in BOOLEAN : Remove(mpath, hasCb)
    \/ \E mpath \in RawMpaths, hasCb \in BOOLEAN : Disable(mpath, hasCb)
    \/ DisableFsIDCheck
    \/ StoreDisabled

NextGet ==
    \/ NextMfs
    \/ GetLoadAvailable
    \/ GetLoadDisabled
    \/ GetReturn

\* after fs.Init(): nothing published, empty fsid map, fsid check on; the
\* root of mountpath 1 may still carry another target's daemon id
InitMfsVars ==
    /\ available = <<>>
    /\ disabled = <<>>
    /\ fsIDs = <<>>
    /\ checkFsID = TRUE
    /\ ios = {}
    /\ xattr \in {[p \in Mpaths |-> NoTid],
                 [p \in Mpaths |-> IF p = 1 THEN T2 ELSE NoTid]}
    /\ wr = <<>>
    /\ ret = Ret("Init", "nil", 0, FALSE, FALSE, <<>>)
    /\ halted = FALSE
    /\ rd = [pc |-> "idle", avail |-> {}, dis |-> {}, torn |-> FALSE]
    /\ live = [n |-> 0, ok |-> {}]

IdleRenVars ==
    /\ dirs = <<>>
    /\ bpc = <<>>
    /\ rnRet = <<>>

IdleTxnVars ==
    /\ txns = [u \in UUIDs |-> <<>>]
    /\ waiting = [u \in UUIDs |-> <<>>]
    /\ bmdVer = 0
    /\ bmdBcks = [b \in BckNames |-> <<>>]
    /\ capErr = FALSE
    /\ tret = <<>>
    /\ fx = <<>>

\* the zero CapStatus, and the zero Capacity of a mountpath
NoCapStatus == [TotalUsed |-> 0, TotalAvail |-> 0, PctAvg |-> 0, PctMax |-> 0,
                Err |-> "nil", OOS |-> FALSE]
NoCapacity == [Used |-> 0, Avail |-> 0, PctUsed |-> 0]

IdleCapVars ==
    /\ capacity = [p \in Mpaths |-> NoCapacity]
    /\ capStatus = NoCapStatus
    /\ capTime = [curr |-> 0, next |-> 0]
    /\ capRet = <<>>
    /\ putRet = <<>>

IdlePathVars == pcRet = <<>> /\ owner = <<>>

NoBoot == <<>>
IdleVars == IdleCapVars /\ IdlePathVars /\ boot = NoBoot /\ lc = <<>>

InitMfs ==
    /\ InitMfsVars
    /\ tracing = TRUE
    /\ hist = NoHist
    /\ IdleRenVars /\ IdleTxnVars /\ IdleVars
InitGet ==
    /\ InitMfsVars
    /\ tracing = FALSE
    /\ hist = NoHist
    /\ IdleRenVars /\ IdleTxnVars /\ IdleVars
\* the registry with the history of its calls observed instead of their returns
InitHist ==
    /\ InitMfsVars
    /\ tracing = FALSE
    /\ hist = EmptyHist
    /\ IdleRenVars /\ IdleTxnVars /\ IdleVars

SpecMfs == InitMfs /\ [][NextMfs]_vars
SpecHist == InitHist /\ [][NextMfs]_vars
SpecGet == InitGet /\ [][NextGet]_vars

----------------------------------------------------------------------------
\* fs/mountfs.go: the path composer. A string is a sequence of characters.

Separator == "/"
prefProvider == "@"
prefNsUUID == "@"
prefNsName == "#"
prefCT == "%"

\* mi.Path of mountpath p
MiPath(p) == <<Separator, "m", p>>

NsGlobal == [UUID |-> <<>>, Name |-> <<>>]
IsGlobal(ns) == ns.UUID = <<>> /\ ns.Name = <<>>
IsRemote(ns) == ns.UUID # <<>>

\* a cmn.Bck; Props is <<>> (nil) or <<[BID |-> bid]>>
Bck(name, provider, ns, props) ==
    [Name |-> name, Provider |-> provider, Ns |-> ns, Props |-> props]

\* m is mi.bpc.m
makePathBuf(mi, m, bck, contentType) ==
    LET hit == /\ contentType # <<>>
               /\ bck.Props # <<>>
               /\ bck.Props[1].BID # 0
               /\ bck.Props[1].BID \in DOMAIN m
        ns == IF IsGlobal(bck.Ns) THEN <<>>
              ELSE <<Separator>>
                   \o (IF IsRemote(bck.Ns) THEN <<prefNsUUID>> \o bck.Ns.UUID
                       ELSE <<>>)
                   \o <<prefNsName>> \o bck.Ns.Name
        nm == IF bck.Name # <<>> THEN <<Separator>> \o bck.Name ELSE <<>>
        bdir == IF hit THEN m[bck.Props[1].BID]
                ELSE MiPath(mi) \o <<Separator, prefProvider>> \o bck.Provider
                     \o ns \o nm
    IN IF contentType # <<>> THEN bdir \o <<Separator, prefCT>> \o contentType
       ELSE bdir

PutBpc(m, bid, dir) == [b \in DOMAIN m \cup {bid} |-> IF b = bid THEN dir ELSE m[b]]
DelBpc(m, bid) == [b \in DOMAIN m \ {bid} |-> m[b]]

\* the directory and mi.bpc.m after the call
MakePathBck(mi, m, bck) ==
    IF bck.Props = <<>> THEN [dir |-> makePathBuf(mi, m, bck, <<>>), m |-> m]
    ELSE LET bid == bck.Props[1].BID IN
         IF bid \in DOMAIN m THEN [dir |-> m[bid], m |-> m]
         ELSE LET put(dir) == [dir |-> dir, m |-> PutBpc(m, bid, dir)]
              IN put(makePathBuf(mi, m, bck, <<>>))

MakePathCT(mi, m, bck, contentType) == makePathBuf(mi, m, bck, contentType)

MakePathFQN(mi, m, bck, contentType, objName) ==
    makePathBuf(mi, m, bck, contentType) \o <<Separator>> \o objName

makeDelPathBck(mi, m, bck, bid) ==
    IF bid \in DOMAIN m THEN [dir |-> m[bid], m |-> DelBpc(m, bid)]
    ELSE MakePathBck(mi, m, bck)

----------------------------------------------------------------------------
\* The filesystem under the bucket directories: "none" (no such directory),
\* "empty" or "data" (a directory with entries)

\* os.RemoveAll(path); its error is ignored by the caller
osRemoveAll(d, path, fault) ==
    IF fault \/ path \notin DOMAIN d THEN d ELSE [d EXCEPT ![path] = "none"]

\* os.Rename(from, to) of a directory
osRename(d, from, to, fault) ==
    IF fault THEN [err |-> "EIO", d |-> d]
    ELSE IF from \notin DOMAIN d \/ d[from] = "none" THEN [err |-> "ENOENT", d |-> d]
    ELSE IF from = to THEN [err |-> "nil", d |-> d]
    ELSE IF to \notin DOMAIN d THEN [err |-> "EIO", d |-> d]
    ELSE IF d[to] = "data" THEN [err |-> "ENOTEMPTY", d |-> d]
    ELSE [err |-> "nil", d |-> [d EXCEPT ![to] = d[from], ![from] = "none"]]

\* RenameBucketDirs, the loop over availablePaths in one iteration order.
\* w: [d, bpc, err, renamed, failed]; rmFail, renFail: the mountpaths where
\* RemoveAll and Rename meet an I/O error
RECURSIVE renameLoop(_, _, _, _, _, _, _)
renameLoop(order, bidFrom, bckFrom, bckTo, rmFail, renFail, w) ==
    IF order = <<>> \/ w.err # "nil" THEN w
    ELSE LET mi == Head(order)
             w1(t, r) ==
                 [w EXCEPT !.d = r.d, !.bpc[mi] = t.m, !.err = r.err,
                           !.renamed = IF r.err = "nil" THEN Append(@, mi) ELSE @,
                           !.failed = IF r.err = "nil" THEN @ ELSE mi]
             ren(f, t) ==
                 w1(t, osRename(osRemoveAll(w.d, t.dir, mi \in rmFail),
                                f.dir, t.dir, mi \in renFail))
             to(f) == ren(f, MakePathBck(mi, f.m, bckTo))
         IN renameLoop(Tail(order), bidFrom, bckFrom, bckTo, rmFail, renFail,
                       to(makeDelPathBck(mi, w.bpc[mi], bckFrom, bidFrom)))

\* the rollback loop over `renamed`; its rename errors are only logged
RECURSIVE rollbackLoop(_, _, _, _, _)
rollbackLoop(renamed, bckFrom, bckTo, rbFail, w) ==
    IF renamed = <<>> THEN w
    ELSE LET mi == Head(renamed)
             w1(t, r) ==
                 [w EXCEPT !.d = r.d, !.bpc[mi] = t.m,
                           !.rolled = IF r.err = "nil" THEN Append(@, mi) ELSE @]
             ren(f, t) == w1(t, osRename(w.d, f.dir, t.dir, mi \in rbFail))
             to(f) == ren(f, MakePathBck(mi, f.m, bckFrom))
         IN rollbackLoop(Tail(renamed), bckFrom, bckTo, rbFail,
                         to(MakePathBck(mi, w.bpc[mi], bckTo)))

\* variant: the error of the failed rename is dropped once the rollback is done
renameBucketDirsErrDropped(order, bidFrom, bckFrom, bckTo, rmFail, renFail, rbFail, d, c) ==
    LET w0 == [d |-> d, bpc |-> c, err |-> "nil", renamed |-> <<>>,
               failed |-> 0, rolled |-> <<>>]
        back(w) ==
            IF w.err = "nil" THEN w
            ELSE [rollbackLoop(w.renamed, bckFrom, bckTo, rbFail, w)
                      EXCEPT !.err = "nil"]
    IN back(renameLoop(order, bidFrom, bckFrom, bckTo, rmFail, renFail, w0))

renameBucketDirs(order, bidFrom, bckFrom, bckTo, rmFail, renFail, rbFail, d, c) ==
    LET w0 == [d |-> d, bpc |-> c, err |-> "nil", renamed |-> <<>>,
               failed |-> 0, rolled |-> <<>>]
        back(w) ==
            IF w.err = "nil" THEN w
            ELSE rollbackLoop(w.renamed, bckFrom, bckTo, rbFail, w)
    IN back(renameLoop(order, bidFrom, bckFrom, bckTo, rmFail, renFail, w0))

----------------------------------------------------------------------------
\* RenameBucketDirs from any on-disk state of the two buckets

ProviderAIS == <<"a", "i", "s">>
\* the source bucket (bid 1) and the destination bucket (bid 2)
RenFrom(withProps) ==
    Bck(<<"a">>, ProviderAIS, NsGlobal, IF withProps THEN <<[BID |-> 1]>> ELSE <<>>)
RenTo(withProps) ==
    Bck(<<"b">>, ProviderAIS, NsGlobal, IF withProps THEN <<[BID |-> 2]>> ELSE <<>>)
FromDir(mi) == makePathBuf(mi, <<>>, RenFrom(FALSE), <<>>)
ToDir(mi) == makePathBuf(mi, <<>>, RenTo(FALSE), <<>>)
RenDirs == {FromDir(mi) : mi \in Mpaths} \cup {ToDir(mi) : mi \in Mpaths}

\* at most one mountpath meets an I/O error in each of the three syscalls
Faults == {{}} \cup {{mi} : mi \in Mpaths}

RenameBucketDirs(order, fromProps, toProps, rmFail, renFail, rbFail) ==
    /\ rnRet = <<>>
    /\ LET done(w) ==
               /\ dirs' = w.d
               /\ bpc' = w.bpc
               /\ rnRet' = <<[err |-> w.err, renamed |-> w.renamed,
                              failed |-> w.failed, rolled |-> w.rolled,
                              order |-> order, before |-> dirs]>>
       IN done(renameBucketDirs(order, 1, RenFrom(fromProps), RenTo(toProps),
                                rmFail, renFail, rbFail, dirs, bpc))
    /\ UNCHANGED <<mfsVars, getVars, txnVars, capVars, pathVars, boot, lc>>

NextRen ==
    \E order \in IF rnRet = <<>> THEN Orders(Get[1]) ELSE {}, fromProps \in BOOLEAN, toProps \in BOOLEAN,
       rmFail \in Faults, renFail \in Faults, rbFail \in Faults :
        RenameBucketDirs(order, fromProps, toProps, rmFail, renFail, rbFail)

\* every mountpath is Available; each has or lacks the source directory, and
\* has no, an empty or a non-empty destination directory; the source bucket's
\* directory is cached on every mountpath or on none
InitRen ==
    /\ available = <<Mpaths>>
    /\ disabled = <<{}>>
    /\ fsIDs = <<>>
    /\ checkFsID = TRUE
    /\ ios = Mpaths
    /\ xattr = [p \in Mpaths |-> T1]
    /\ wr = <<>>
    /\ ret = Ret("Init", "nil", 0, FALSE, FALSE, <<>>)
    /\ tracing = FALSE
    /\ halted = FALSE
    /\ hist = NoHist
    /\ rd = [pc |-> "idle", avail |-> {}, dis |-> {}, torn |-> FALSE]
    /\ live = [n |-> 0, ok |-> {}]
    /\ dirs \in {d \in [RenDirs -> {"none", "empty", "data"}] :
                    \A mi \in Mpaths : d[FromDir(mi)] # "empty"}
    /\ bpc \in {[mi \in Mpaths |-> <<>>], [mi \in Mpaths |-> <<FromDir(mi)>>]}
    /\ rnRet = <<>>
    /\ IdleTxnVars
    /\ IdleVars

SpecRen == InitRen /\ [][NextRen]_vars

\* C2 as claimed. Rename atomicity: after RenameBucketDirs returns success every
\* Available mountpath has the destination directory and no source directory;
\* after it returns failure every Available mountpath has the source directory
\* and no destination directory.
C2_RenameAtomicity ==
    rnRet # <<>> =>
        \A mi \in Get[1] :
            IF rnRet[1].err = "nil"
            THEN dirs[ToDir(mi)] # "none" /\ dirs[FromDir(mi)] = "none"
            ELSE dirs[FromDir(mi)] # "none" /\ dirs[ToDir(mi)] = "none"

InSeq(x, q) == \E i \in DOMAIN q : q[i] = x

\* C2 as amended. After success every Available mountpath has the destination
\* and no source. After failure: a mountpath renamed before the failure has the
\* source and no destination if its rollback rename succeeded, and the
\* destination and no source if it failed; the failing mountpath keeps its
\* source as it was, and its destination is gone or as it was; the mountpaths
\* not yet visited are as they were.
C2_RenameRollback ==
    rnRet # <<>> =>
        LET r == rnRet[1] IN
        \A mi \in Get[1] :
            IF r.err = "nil"
            THEN dirs[ToDir(mi)] # "none" /\ dirs[FromDir(mi)] = "none"
            ELSE IF InSeq(mi, r.rolled)
                 THEN dirs[FromDir(mi)] # "none" /\ dirs[ToDir(mi)] = "none"
            ELSE IF InSeq(mi, r.renamed)
                 THEN dirs[ToDir(mi)] # "none" /\ dirs[FromDir(mi)] = "none"
            ELSE IF mi = r.failed
                 THEN /\ dirs[FromDir(mi)] = r.before[FromDir(mi)]
                      /\ dirs[ToDir(mi)] \in {"none", r.before[ToDir(mi)]}
            ELSE /\ dirs[FromDir(mi)] = r.before[FromDir(mi)]
                 /\ dirs[ToDir(mi)] = r.before[ToDir(mi)]

\* a rename failed after two mountpaths were renamed, and both were rolled back
C2_Witness ==
    /\ rnRet # <<>>
    /\ rnRet[1].err # "nil"
    /\ Len(rnRet[1].renamed) = 2
    /\ rnRet[1].rolled = rnRet[1].renamed

Reverse(q) == [i \in 1..Len(q) |-> q[Len(q) + 1 - i]]

\* q with the elements outside S left out
RECURSIVE Only(_, _)
Only(q, S) ==
    IF q = <<>> THEN <<>>
    ELSE IF Head(q) \in S THEN <<Head(q)>> \o Only(Tail(q), S)
    ELSE Only(Tail(q), S)

\* C27. When a rename fails on some mountpath, the error returned is that
\* rename's, and the mountpaths renamed before it are rolled back in the
\* reverse of the order in which they were renamed, each of them attempted
\* whether or not an earlier rollback failed: the rollbacks that succeeded
\* are, in their order, the renamed mountpaths in reverse without those whose
\* rollback met an error.
C27_ReverseRollback ==
    (rnRet # <<>> /\ rnRet[1].err # "nil") =>
        LET r == rnRet[1]
            done == {r.rolled[i] : i \in DOMAIN r.rolled}
        IN /\ r.err \in {"EIO", "ENOENT", "ENOTEMPTY"}
           /\ r.rolled = Only(Reverse(r.renamed), done)

----------------------------------------------------------------------------
\* C1. A Get() that runs concurrently with Add, Enable, Disable or Remove
\* returns an (Available, Disabled) pair published by one mutation: the
\* Disabled map it returns belongs to an epoch whose Available map is the one
\* it returns.
C1_GetOneEpoch == rd.pc = "done" => ~rd.torn

\* C10. Whenever no publication is in progress, no mountpath is a key of both
\* the published Available map and the published Disabled map.
C10_Disjoint == wr = <<>> => GetAvail(available) \cap GetAvail(disabled) = {}

\* C11. While the fsid check is enabled, no two mountpaths of the published
\* Available map share a filesystem id (in every state reached by InitMpaths
\* and any sequence of Add/Enable/Disable/Remove): an Add of a path whose
\* filesystem is already claimed by a registered mountpath fails.
C11_FsidUnique ==
    checkFsID =>
        \A p, q \in GetAvail(available) : FsID(p) = FsID(q) => p = q

\* the mountpaths of either published map
Registered == GetAvail(available) \cup GetAvail(disabled)

\* C12. Whenever no call is in progress, the fsid map has an entry for a
\* filesystem id if and only if a mountpath with that fsid is in Available or
\* Disabled, and the entry names such a mountpath.
C12_FsidMapExact ==
    (wr = <<>> /\ ~halted) =>
        /\ \A p \in Registered : FsID(p) \in DOMAIN fsIDs
        /\ \A f \in DOMAIN fsIDs : fsIDs[f] \in Registered /\ FsID(fsIDs[f]) = f

\* C13. Along every sequence of registry calls that keeps the filesystems of
\* the registered mountpaths distinct, whenever no call is in progress the
\* paths of Available and Disabled are exactly the mountpaths whose Add
\* succeeded and that were not removed since: an Add that returns an error
\* leaves its mountpath in neither map.
C13_RegisteredAreAdded ==
    (wr = <<>> /\ ~halted /\ hist # <<>> /\ hist[1].uniq) => Registered = hist[1].added

\* C14. After every step each mountpath of the published Available map is
\* registered in the IO-stat tracker, and a mountpath that the step took out
\* of Available (Disable, Remove) is not registered in the tracker any more.
C14_AvailableInIostat ==
    [][/\ GetAvail(available') \subseteq ios'
       /\ \A p \in GetAvail(available) \ GetAvail(available') : p \notin ios']_vars

\* Disable has moved a mountpath out of Available while another one stays
C14_Witness ==
    /\ wr = <<>>
    /\ ret.op = "Disable"
    /\ ret.err = "nil"
    /\ ret.mi \in GetAvail(disabled) \ GetAvail(available)
    /\ ret.mi \notin ios
    /\ GetAvail(available) # {}

\* C15. Outside test mode every mountpath of the published Available map has
\* a non-empty Disks list: an AddMpath or InitMpaths that finds a mountpath
\* without disks returns ErrMpathNoDisks and leaves it out of Available.
C15_DisksNonEmpty ==
    ~TestingEnv =>
        /\ \A p \in GetAvail(available) : Disks(p) # {}
        /\ (wr = <<>> /\ ret.op \in {"AddMpath", "InitMpaths"}
                /\ ret.err = "ErrMpathNoDisks")
              => ret.mi \notin GetAvail(available)

\* C30. With the fsid check enabled, an Enable (or EnableMpath) of the
\* mountpath that the last registry call, a Disable, moved to Disabled
\* succeeds, returns that mountpath and moves it back: Available and Disabled
\* become what they were before the Disable.
C30_DisableEnable ==
    [][(/\ wr = <<>>
        /\ checkFsID
        /\ ret.op = "Disable"
        /\ ret.err = "nil"
        /\ ret.mi \in GetAvail(disabled)
        /\ Enable(ret.mi) \/ EnableMpath(ret.mi, T1))
          => /\ wr' # <<>>
             /\ wr'[1].ret.err = "nil"
             /\ wr'[1].ret.mi = ret.mi
             /\ available' = <<GetAvail(available) \cup {ret.mi}>>
             /\ wr'[1].disabled = GetAvail(disabled) \ {ret.mi}]_vars

\* what the call that takes this step returns: a call that publishes returns
\* after the second store
Returned == IF wr' # <<>> THEN wr'[1].ret ELSE ret'
\* the Disabled map the call leaves
DisabledAfter == IF wr' # <<>> THEN wr'[1].disabled ELSE GetAvail(disabled')

\* C34. An Add, AddMpath, Enable or EnableMpath that returns an error leaves
\* the registry as it was before the call: the published Available and
\* Disabled maps, the fsid map and the mountpaths of the IO-stat tracker.
C34_FailedAddNoEffect ==
    [][(/\ wr = <<>>
        /\ Returned.op \in {"Add", "AddMpath", "Enable", "EnableMpath"}
        /\ Returned.err # "nil")
          => /\ GetAvail(available') = GetAvail(available)
             /\ DisabledAfter = GetAvail(disabled)
             /\ fsIDs' = fsIDs
             /\ ios' = ios]_vars

\* C35. A Remove of a path that is neither in Available nor in Disabled
\* returns an error and changes nothing: the two maps, the fsid map, the
\* IO-stat tracker and the daemon-id xattr on that directory stay as they were.
C35_RemoveUnknownNoEffect ==
    [][\A mpath \in RawMpaths :
          (/\ ValidateMpath(mpath).err = "nil"
           /\ ValidateMpath(mpath).clean \notin Get[1] \cup Get[2]
           /\ \E hasCb \in BOOLEAN : Remove(mpath, hasCb))
             => /\ ret'.err # "nil"
                /\ UNCHANGED <<available, disabled, fsIDs, ios, wr>>
                /\ xattr'[ValidateMpath(mpath).clean]
                       = xattr[ValidateMpath(mpath).clean]]_vars

\* C37. NumAvail() is defined in every state, and is the number of entries of
\* the Available map that Get() returns: 0 while nothing has been published.
C37_NumAvail ==
    /\ ~NumAvail.panic
    /\ NumAvail.n = Cardinality(Get[1])

\* The registry under Add, Disable and Remove alone
NextCb ==
    \/ \E mpath \in RawMpaths : Add(mpath, T1)
    \/ \E mpath \in RawMpaths, hasCb \in BOOLEAN : Remove(mpath, hasCb)
    \/ \E mpath \in RawMpaths, hasCb \in BOOLEAN : Disable(mpath, hasCb)
    \/ DisableFsIDCheck
    \/ StoreDisabled

SpecCb == InitMfs /\ [][NextCb]_vars

\* C38. The callback passed to Disable or Remove is invoked (once) if and
\* only if the call took a mountpath out of Available and an Available
\* mountpath remains; it is invoked after the new snapshot is published, before
\* the lock is released. Taking out the last Available mountpath succeeds
\* without the callback, and no callback runs on an error, on a mountpath that
\* is already disabled, or when a Disabled mountpath is removed.
C38_Callback ==
    [][\A mpath \in RawMpaths, hasCb \in BOOLEAN :
          (Disable(mpath, hasCb) \/ Remove(mpath, hasCb))
             => LET v == ValidateMpath(mpath)
                    took == v.err = "nil" /\ v.clean \in Get[1]
                IN /\ Returned.cb
                          <=> (hasCb /\ took /\ GetAvail(available') # {})
                   /\ Returned.cb => wr' # <<>>
                   /\ took => /\ Returned.err = "nil"
                              /\ wr' # <<>>
                              /\ v.clean \notin GetAvail(available')]_vars

\* a Disable has taken a mountpath out of Available, left another one there,
\* and invoked its callback
C38_Witness ==
    /\ wr = <<>>
    /\ ret.op = "Disable"
    /\ ret.err = "nil"
    /\ ret.cb
    /\ ret.mi \in GetAvail(disabled)
    /\ GetAvail(available) # {}

\* a Remove has taken out the last Available mountpath without the callback
C38_WitnessLast ==
    /\ wr = <<>>
    /\ ret.op = "Remove"
    /\ ret.err = "nil"
    /\ ret.mi # 0
    /\ ~ret.cb
    /\ available = <<{}>>
    /\ ret.mi \notin GetAvail(disabled)

\* The boot of a target: InitMpaths on the registry that fs.Init() left, with
\* its arguments and the state before it kept for the observer.
BootIdle == <<[called |-> FALSE, order |-> <<>>, vmd |-> <<>>, ios |-> {},
               xattr |-> [p \in Mpaths |-> NoTid], fsIDs |-> <<>>]>>

NextBoot ==
    \/ \E order \in ConfigOrders, vmd \in VMDs : InitMpaths(order, vmd)
    \/ StoreDisabled

InitBoot ==
    /\ InitMfsVars
    /\ tracing = TRUE
    /\ hist = NoHist
    /\ IdleRenVars /\ IdleTxnVars /\ IdleCapVars /\ IdlePathVars
    /\ boot = BootIdle
    /\ lc = <<>>

SpecBoot == InitBoot /\ [][NextBoot]_vars

ConfigPaths(order) == {order[i] : i \in DOMAIN order}

\* InitMpaths was called with a configuration and a loaded VMD
BootedWithVMD ==
    /\ boot # <<>>
    /\ boot[1].called
    /\ boot[1].order # <<>>
    /\ boot[1].vmd # <<>>

\* every configured path passes the checks of its own: the paths lie on
\* distinct filesystems that the fsid map does not know, and each enabled one
\* has disks, is not in the IO-stat tracker and carries no other daemon's id
Healthy(b) ==
    LET mountpaths == b.vmd[1].Mountpaths IN
    /\ \A p, q \in ConfigPaths(b.order) : FsID(p) = FsID(q) => p = q
    /\ \A p \in ConfigPaths(b.order) :
          /\ FsID(p) \notin DOMAIN b.fsIDs
          /\ (p \in DOMAIN mountpaths => mountpaths[p]) =>
                /\ ~NoDisks(p)
                /\ p \notin b.ios
                /\ b.xattr[p] \in {NoTid, T1}

\* InitMpaths refused the VMD: nothing registered, nothing written
Refused(b) ==
    /\ wr = <<>>
    /\ ret.op = "InitMpaths"
    /\ ret.err = "ErrVmdIdMismatch"
    /\ ret.vmd = <<>>
    /\ available = <<>>
    /\ disabled = <<>>
    /\ ios = b.ios
    /\ fsIDs = b.fsIDs
    /\ xattr = b.xattr

BootedOk ==
    /\ BootedWithVMD
    /\ boot[1].vmd[1].DaemonID = T1
    /\ wr = <<>>
    /\ ret.op = "InitMpaths"
    /\ ret.err = "nil"

\* C22. With a VMD of this target, a successful InitMpaths leaves in
\* Available exactly the configured paths that the VMD marks enabled or does
\* not list, and in Disabled exactly those it marks disabled; it returns
\* changed=true, and writes a new VMD, if and only if the set of configured
\* paths differs from the set of the VMD's paths.
C22_Reconcile ==
    BootedOk =>
        LET config == ConfigPaths(boot[1].order)
            mountpaths == boot[1].vmd[1].Mountpaths
        IN /\ GetAvail(available) =
                  {p \in config : p \in DOMAIN mountpaths => mountpaths[p]}
           /\ GetAvail(disabled) =
                  {p \in config : p \in DOMAIN mountpaths /\ ~mountpaths[p]}
           /\ ret.changed <=> config # DOMAIN mountpaths
           /\ ret.vmd # <<>> <=> ret.changed

\* a successful boot where the configuration and the VMD have as many paths
\* and each has a path the other lacks
C22_Witness ==
    /\ BootedOk
    /\ ret.changed
    /\ ret.vmd # <<>>
    /\ LET config == ConfigPaths(boot[1].order)
           listed == DOMAIN boot[1].vmd[1].Mountpaths
       IN /\ Cardinality(config) = Cardinality(listed)
          /\ config \ listed # {}
          /\ listed \ config # {}
          /\ GetAvail(disabled) # {}

----------------------------------------------------------------------------
\* ais/tgttxn.go: the target-side transaction coordinator

MaxBmdVer == 1      \* BMD versions installed after startup
SweepAge == 2       \* timeout x k, in ticks of the sweeper's clock

ActCreateLB == "createlb"
ActMakeNCopies == "makencopies"
ActSetBprops == "setbprops"
ActRenameLB == "renamelb"
Actions == {ActCreateLB, ActMakeNCopies, ActSetBprops, ActRenameLB}
ActBegin == "begin"
ActCommit == "commit"
ActAbort == "abort"

ObjectType == <<"o", "b">>

\* cmn.BucketProps
BProps(bid, mirror, copies, ec) ==
    [BID |-> bid, Mirror |-> [Enabled |-> mirror, Copies |-> copies],
     EC |-> [Enabled |-> ec]]

\* a call into the xaction registry, the rename of the bucket directories or
\* the activation of get-from-neighbor
Fx(op, n) == [op |-> op, n |-> n]

\* what the coordinator reads: the table, the BMD, the capacity status, the
\* Available mountpaths and the bucket directories
TxnState ==
    [txns |-> txns, bmdVer |-> bmdVer, bmdBcks |-> bmdBcks, capErr |-> capErr,
     avail |-> Get[1], dirs |-> dirs, bpc |-> bpc]

\* a handler's outcome: the error it returns, what it leaves behind, the side
\* effects it has performed, and whether it is blocked in transactions.wait
Out(err, s, f, w) ==
    [err |-> err, txns |-> s.txns, dirs |-> s.dirs, bpc |-> s.bpc,
     fx |-> f, wait |-> w]

\* prepTxnServer: the request's context; the bucket of the request is "a"
prepTxnServer(action, phase, uuid, value) ==
    [uuid |-> uuid, phase |-> phase, bmdVer |-> bmdVer, action |-> action,
     value |-> value, bck |-> Bck(<<"a">>, ProviderAIS, NsGlobal, <<>>)]

\* cluster.Bck.Init: looks the bucket up in the BMD and sets its props
bckInit(bck, s) ==
    [err |-> IF s.bmdBcks[bck.Name] = <<>> THEN "ErrBucketNotFound" ELSE "nil",
     bck |-> [bck EXCEPT !.Props = s.bmdBcks[bck.Name]]]

\* newTxn*: the transaction awaits the BMD version that follows the one the
\* request saw
newTxn(c, val) ==
    [uuid |-> c.uuid, kind |-> c.action, bmdVer |-> c.bmdVer + 1,
     age |-> 0, val |-> val]

\* transactions.begin: a begin with the uuid of a pending record is a no-op
transactionsBegin(t, txn) ==
    [err |-> "nil",
     txns |-> IF t[txn.uuid] # <<>> THEN t ELSE [t EXCEPT ![txn.uuid] = <<txn>>]]

\* transactions.find(uuid, remove)
transactionsFind(t, uuid, rm) ==
    [err |-> IF t[uuid] = <<>> THEN "ErrTxnNotFound" ELSE "nil",
     txn |-> t[uuid],
     txns |-> IF rm THEN [t EXCEPT ![uuid] = <<>>] ELSE t]

\* transactions.wait: done once the installed BMD version has reached the
\* transaction's, and then the record is removed
transactionsWait(t, txn, ver) ==
    [done |-> ver >= txn.bmdVer /\ t[txn.uuid] = <<txn>>,
     txns |-> [t EXCEPT ![txn.uuid] = <<>>]]

\* mirror.ValidateNCopies
ValidateNCopies(copies, mpathCount) ==
    IF copies < 1 \/ copies > mpathCount THEN "ErrTxnValidation" ELSE "nil"

\* parseNCopies of the message value
parseNCopies(value) == [n |-> value, err |-> "nil"]

\* variant: the capacity is checked unless the number of copies decreases
validateMakeNCopiesAnyChange(bck, value, s) ==
    LET curCopies == bck.Props[1].Mirror.Copies
        p == parseNCopies(value)
        err == IF p.err = "nil" THEN ValidateNCopies(p.n, Cardinality(s.avail))
               ELSE p.err
    IN [curCopies |-> curCopies, newCopies |-> p.n,
        err |-> IF err # "nil" THEN err
                ELSE IF curCopies <= p.n /\ s.capErr THEN "ErrCapacity"
                ELSE "nil"]

\* validateMakeNCopies
validateMakeNCopies(bck, value, s) ==
    LET curCopies == bck.Props[1].Mirror.Copies
        p == parseNCopies(value)
        err == IF p.err = "nil" THEN ValidateNCopies(p.n, Cardinality(s.avail))
               ELSE p.err
    IN [curCopies |-> curCopies, newCopies |-> p.n,
        err |-> IF err # "nil" THEN err
                ELSE IF curCopies < p.n /\ s.capErr THEN "ErrCapacity"
                ELSE "nil"]

\* validateNprops; value is the BucketProps the message carries
validateNprops(bck, value, s) ==
    LET nprops == value
        bprops == bck.Props[1]
        mpathCount == Cardinality(s.avail)
    IN [nprops |-> nprops,
        err |-> IF nprops.Mirror.Enabled /\ nprops.Mirror.Copies > mpathCount
                THEN "ErrTxnValidation"
                ELSE IF /\ nprops.Mirror.Enabled
                        /\ nprops.Mirror.Copies > bprops.Mirror.Copies
                        /\ s.capErr
                THEN "ErrCapacity"
                ELSE IF nprops.EC.Enabled /\ ~bprops.EC.Enabled /\ s.capErr
                THEN "ErrCapacity"
                ELSE "nil"]

\* variant: any difference between the two mirror configurations remirrors
remirrorAnyDifference(bprops, nprops) ==
    bprops.Mirror # nprops.Mirror

remirror(bprops, nprops) ==
    IF ~bprops.Mirror.Enabled /\ nprops.Mirror.Enabled THEN TRUE
    ELSE IF bprops.Mirror.Enabled /\ nprops.Mirror.Enabled
    THEN bprops.Mirror.Copies # nprops.Mirror.Copies
    ELSE FALSE

\* fs.Access and fs.IsDirEmpty of a content directory: it exists, and holds
\* objects, when its bucket directory has data
ctDirNotEmpty(d, path, contentType) ==
    LET bdir == SubSeq(path, 1, Len(path) - Len(contentType) - 2)
    IN bdir \in DOMAIN d /\ d[bdir] = "data"

\* validateBckRenTxn; value is the name of the destination bucket
validateBckRenTxn(bckFrom, value, s) ==
    LET bckTo == Bck(value, ProviderAIS, NsGlobal, <<>>)
    IN [bckTo |-> bckTo,
        err |-> IF s.capErr THEN "ErrCapacity"
                ELSE IF s.bmdBcks[bckFrom.Name] = <<>> THEN "ErrBucketNotFound"
                ELSE IF s.bmdBcks[bckTo.Name] # <<>> THEN "ErrBucketAlreadyExists"
                ELSE IF \E mi \in s.avail :
                          ctDirNotEmpty(s.dirs,
                              MakePathCT(mi, s.bpc[mi], bckTo, ObjectType), ObjectType)
                THEN "ErrDirNotEmpty"
                ELSE "nil"]

\* variant: a begin drops the pending record of its uuid first
createBucketReplace(c, s, in) ==
    LET begun(b) == Out(b.err, [s EXCEPT !.txns = b.txns], <<>>, FALSE)
        waited(txn, w) ==
            IF ~w.done THEN Out("nil", s, <<>>, TRUE)
            ELSE Out("nil", [s EXCEPT !.txns = w.txns], <<>>, FALSE)
        found(f) ==
            IF f.err # "nil" THEN Out(f.err, s, <<>>, FALSE)
            ELSE waited(f.txn[1], transactionsWait(s.txns, f.txn[1], s.bmdVer))
    IN IF c.phase = ActBegin
       THEN begun(transactionsBegin(transactionsFind(s.txns, c.uuid, TRUE).txns,
                                    newTxn(c, [created |-> c.bck])))
       ELSE IF c.phase = ActAbort
       THEN Out("nil", [s EXCEPT !.txns = transactionsFind(s.txns, c.uuid, TRUE).txns],
                <<>>, FALSE)
       ELSE found(transactionsFind(s.txns, c.uuid, FALSE))

\* createBucket
createBucket(c, s, in) ==
    LET begun(b) == Out(b.err, [s EXCEPT !.txns = b.txns], <<>>, FALSE)
        waited(txn, w) ==
            IF ~w.done THEN Out("nil", s, <<>>, TRUE)
            ELSE Out("nil", [s EXCEPT !.txns = w.txns], <<>>, FALSE)
        found(f) ==
            IF f.err # "nil" THEN Out(f.err, s, <<>>, FALSE)
            ELSE waited(f.txn[1], transactionsWait(s.txns, f.txn[1], s.bmdVer))
    IN IF c.phase = ActBegin
       THEN begun(transactionsBegin(s.txns, newTxn(c, [created |-> c.bck])))
       ELSE IF c.phase = ActAbort
       THEN Out("nil", [s EXCEPT !.txns = transactionsFind(s.txns, c.uuid, TRUE).txns],
                <<>>, FALSE)
       ELSE found(transactionsFind(s.txns, c.uuid, FALSE))

\* makeNCopies, from the return of transactions.wait on
makeNCopiesDo(c, txn, s) ==
    Out("nil", s, <<Fx("DoAbortPutCopies", 0),
                    Fx("RenewBckMakeNCopies", parseNCopies(c.value).n)>>, FALSE)

\* variant: the commit does its work before it waits for the BMD
makeNCopiesEarly(c, s, in) ==
    LET begun(b) == Out(b.err, [s EXCEPT !.txns = b.txns], <<>>, FALSE)
        valid(v) ==
            IF v.err # "nil" THEN Out(v.err, s, <<>>, FALSE)
            ELSE begun(transactionsBegin(s.txns,
                     newTxn(c, [curCopies |-> v.curCopies, newCopies |-> v.newCopies])))
        waited(txn, w) ==
            IF ~w.done THEN [makeNCopiesDo(c, txn, s) EXCEPT !.wait = TRUE]
            ELSE makeNCopiesDo(c, txn, [s EXCEPT !.txns = w.txns])
        found(f) ==
            IF f.err # "nil" THEN Out(f.err, s, <<>>, FALSE)
            ELSE waited(f.txn[1], transactionsWait(s.txns, f.txn[1], s.bmdVer))
        inited(i) ==
            IF i.err # "nil" THEN Out(i.err, s, <<>>, FALSE)
            ELSE IF c.phase = ActBegin
            THEN valid(validateMakeNCopies(i.bck, c.value, s))
            ELSE IF c.phase = ActAbort
            THEN Out("nil",
                     [s EXCEPT !.txns = transactionsFind(s.txns, c.uuid, TRUE).txns],
                     <<>>, FALSE)
            ELSE found(transactionsFind(s.txns, c.uuid, FALSE))
    IN inited(bckInit(c.bck, s))

\* makeNCopies
makeNCopies(c, s, in) ==
    LET begun(b) == Out(b.err, [s EXCEPT !.txns = b.txns], <<>>, FALSE)
        valid(v) ==
            IF v.err # "nil" THEN Out(v.err, s, <<>>, FALSE)
            ELSE begun(transactionsBegin(s.txns,
                     newTxn(c, [curCopies |-> v.curCopies, newCopies |-> v.newCopies])))
        waited(txn, w) ==
            IF ~w.done THEN Out("nil", s, <<>>, TRUE)
            ELSE makeNCopiesDo(c, txn, [s EXCEPT !.txns = w.txns])
        found(f) ==
            IF f.err # "nil" THEN Out(f.err, s, <<>>, FALSE)
            ELSE waited(f.txn[1], transactionsWait(s.txns, f.txn[1], s.bmdVer))
        inited(i) ==
            IF i.err # "nil" THEN Out(i.err, s, <<>>, FALSE)
            ELSE IF c.phase = ActBegin
            THEN valid(validateMakeNCopies(i.bck, c.value, s))
            ELSE IF c.phase = ActAbort
            THEN Out("nil",
                     [s EXCEPT !.txns = transactionsFind(s.txns, c.uuid, TRUE).txns],
                     <<>>, FALSE)
            ELSE found(transactionsFind(s.txns, c.uuid, FALSE))
    IN inited(bckInit(c.bck, s))

\* setBucketProps, from the return of transactions.wait on
setBucketPropsDo(c, txn, s) ==
    IF remirror(txn.val.bprops, txn.val.nprops)
    THEN Out("nil", s, <<Fx("DoAbortPutCopies", 0),
                         Fx("RenewBckMakeNCopies", txn.val.nprops.Mirror.Copies)>>,
             FALSE)
    ELSE Out("nil", s, <<>>, FALSE)

\* variant: the begin already remirrors
setBucketPropsEager(c, s, in) ==
    LET begun(txn, b) ==
            [setBucketPropsDo(c, txn, [s EXCEPT !.txns = b.txns]) EXCEPT !.err = b.err]
        valid(bck, v) ==
            IF v.err # "nil" THEN Out(v.err, s, <<>>, FALSE)
            ELSE begun([val |-> [bprops |-> bck.Props[1], nprops |-> v.nprops]],
                       transactionsBegin(s.txns,
                           newTxn(c, [bprops |-> bck.Props[1], nprops |-> v.nprops])))
        waited(txn, w) ==
            IF ~w.done THEN Out("nil", s, <<>>, TRUE)
            ELSE setBucketPropsDo(c, txn, [s EXCEPT !.txns = w.txns])
        found(f) ==
            IF f.err # "nil" THEN Out(f.err, s, <<>>, FALSE)
            ELSE waited(f.txn[1], transactionsWait(s.txns, f.txn[1], s.bmdVer))
        inited(i) ==
            IF i.err # "nil" THEN Out(i.err, s, <<>>, FALSE)
            ELSE IF c.phase = ActBegin
            THEN valid(i.bck, validateNprops(i.bck, c.value, s))
            ELSE IF c.phase = ActAbort
            THEN Out("nil",
                     [s EXCEPT !.txns = transactionsFind(s.txns, c.uuid, TRUE).txns],
                     <<>>, FALSE)
            ELSE found(transactionsFind(s.txns, c.uuid, FALSE))
    IN inited(bckInit(c.bck, s))

\* setBucketProps
setBucketProps(c, s, in) ==
    LET begun(b) == Out(b.err, [s EXCEPT !.txns = b.txns], <<>>, FALSE)
        valid(bck, v) ==
            IF v.err # "nil" THEN Out(v.err, s, <<>>, FALSE)
            ELSE begun(transactionsBegin(s.txns,
                     newTxn(c, [bprops |-> bck.Props[1], nprops |-> v.nprops])))
        waited(txn, w) ==
            IF ~w.done THEN Out("nil", s, <<>>, TRUE)
            ELSE setBucketPropsDo(c, txn, [s EXCEPT !.txns = w.txns])
        found(f) ==
            IF f.err # "nil" THEN Out(f.err, s, <<>>, FALSE)
            ELSE waited(f.txn[1], transactionsWait(s.txns, f.txn[1], s.bmdVer))
        inited(i) ==
            IF i.err # "nil" THEN Out(i.err, s, <<>>, FALSE)
            ELSE IF c.phase = ActBegin
            THEN valid(i.bck, validateNprops(i.bck, c.value, s))
            ELSE IF c.phase = ActAbort
            THEN Out("nil",
                     [s EXCEPT !.txns = transactionsFind(s.txns, c.uuid, TRUE).txns],
                     <<>>, FALSE)
            ELSE found(transactionsFind(s.txns, c.uuid, FALSE))
    IN inited(bckInit(c.bck, s))

\* renameBucket, from the return of transactions.wait on; in.order is the
\* iteration order of the Available map and in.renFail the mountpaths whose
\* rename meets an I/O error
renameBucketDo(c, txn, s, in) ==
    LET bckFrom == txn.val.bckFrom
        called == <<Fx("RenewBckFastRename", 0), Fx("RenameBucketDirs", 0)>>
        run(r) ==
            Out(r.err, [s EXCEPT !.dirs = r.d, !.bpc = r.bpc],
                IF r.err # "nil" THEN called
                ELSE called \o <<Fx("gfnActivate", 0), Fx("xactRun", 0)>>, FALSE)
    IN run(renameBucketDirs(in.order, bckFrom.Props[1].BID, bckFrom,
                            txn.val.bckTo, {}, in.renFail, {}, s.dirs, s.bpc))

\* renameBucket
renameBucket(c, s, in) ==
    LET begun(b) == Out(b.err, [s EXCEPT !.txns = b.txns], <<>>, FALSE)
        valid(bck, v) ==
            IF v.err # "nil" THEN Out(v.err, s, <<>>, FALSE)
            ELSE begun(transactionsBegin(s.txns,
                     newTxn(c, [bckFrom |-> bck, bckTo |-> v.bckTo])))
        waited(txn, w) ==
            IF ~w.done THEN Out("nil", s, <<>>, TRUE)
            ELSE renameBucketDo(c, txn, [s EXCEPT !.txns = w.txns], in)
        found(f) ==
            IF f.err # "nil" THEN Out(f.err, s, <<>>, FALSE)
            ELSE waited(f.txn[1], transactionsWait(s.txns, f.txn[1], s.bmdVer))
        inited(i) ==
            IF i.err # "nil" THEN Out(i.err, s, <<>>, FALSE)
            ELSE IF c.phase = ActBegin
            THEN valid(i.bck, validateBckRenTxn(i.bck, c.value, s))
            ELSE IF c.phase = ActAbort
            THEN Out("nil",
                     [s EXCEPT !.txns = transactionsFind(s.txns, c.uuid, TRUE).txns],
                     <<>>, FALSE)
            ELSE found(transactionsFind(s.txns, c.uuid, FALSE))
    IN inited(bckInit(c.bck, s))

\* txnHandler: the switch on the action
txnHandler(c, s, in) ==
    IF c.action = ActCreateLB THEN createBucket(c, s, in)
    ELSE IF c.action = ActMakeNCopies THEN makeNCopies(c, s, in)
    ELSE IF c.action = ActSetBprops THEN setBucketProps(c, s, in)
    ELSE renameBucket(c, s, in)

\* the handler of a commit whose transactions.wait has returned nil
txnResume(c, txn, s, in) ==
    IF c.action = ActCreateLB THEN Out("nil", s, <<>>, FALSE)
    ELSE IF c.action = ActMakeNCopies THEN makeNCopiesDo(c, txn, s)
    ELSE IF c.action = ActSetBprops THEN setBucketPropsDo(c, txn, s)
    ELSE renameBucketDo(c, txn, s, in)

----------------------------------------------------------------------------
\* The steps of the coordinator and of its environment

NoInput == [order |-> <<>>, renFail |-> {}]

\* the outcome o of the request c takes effect; had and ver: whether the
\* request found a record with its uuid, and the BMD version that one awaits
Reply(c, o, had, ver) ==
    /\ txns' = o.txns
    /\ dirs' = o.dirs
    /\ bpc' = o.bpc
    /\ waiting' = IF o.wait
                  THEN [waiting EXCEPT ![c.uuid] = <<[action |-> c.action,
                                                      value |-> c.value,
                                                      ver |-> ver,
                                                      fx |-> o.fx]>>]
                  ELSE [waiting EXCEPT ![c.uuid] =
                            IF c.phase = ActCommit THEN <<>> ELSE @]
    /\ tret' = IF tracing
               THEN <<[phase |-> c.phase, action |-> c.action, uuid |-> c.uuid,
                       value |-> c.value,
                       err |-> IF o.wait THEN "blocked" ELSE o.err,
                       had |-> had, txnVer |-> ver]>>
               ELSE <<>>
    /\ fx' = IF tracing THEN o.fx ELSE <<>>
    /\ UNCHANGED <<bmdVer, bmdBcks, capErr, mfsVars, getVars, capVars, pathVars, rnRet, boot, lc>>

\* the BMD version the pending transaction awaits
TxnVer(uuid) == IF txns[uuid] # <<>> THEN txns[uuid][1].bmdVer ELSE 0 - 1

\* a begin request; a transaction id is not reused while a commit with it is
\* in flight
Begin(action, uuid, value) ==
    /\ bmdVer < MaxBmdVer
    /\ waiting[uuid] = <<>>
    /\ LET c == prepTxnServer(action, ActBegin, uuid, value)
       IN Reply(c, txnHandler(c, TxnState, NoInput), txns[uuid] # <<>>,
                TxnVer(uuid))

\* an abort request
Abort(action, uuid) ==
    LET c == prepTxnServer(action, ActAbort, uuid, 0)
    IN Reply(c, txnHandler(c, TxnState, NoInput), txns[uuid] # <<>>, TxnVer(uuid))

\* a commit request, up to its return or to the point where it blocks in
\* transactions.wait; the proxy commits a transaction with the action and the
\* value it began it with, one commit at a time
Commit(action, uuid, value, order, renFail) ==
    /\ waiting[uuid] = <<>>
    /\ txns[uuid] # <<>> =>
          /\ txns[uuid][1].kind = action
          /\ action = ActMakeNCopies => txns[uuid][1].val.newCopies = value
    /\ LET c == prepTxnServer(action, ActCommit, uuid, value)
       IN Reply(c, txnHandler(c, TxnState,
                              [NoInput EXCEPT !.order = order, !.renFail = renFail]),
                txns[uuid] # <<>>, TxnVer(uuid))

\* transactions.wait returns nil to a blocked commit, which runs to its end
WaitDone(uuid, order, renFail) ==
    /\ waiting[uuid] # <<>>
    /\ txns[uuid] # <<>>
    /\ LET req == waiting[uuid][1]
           txn == txns[uuid][1]
           w == transactionsWait(txns, txn, bmdVer)
           c == prepTxnServer(req.action, ActCommit, uuid, req.value)
           o == txnResume(c, txn, [TxnState EXCEPT !.txns = w.txns],
                          [NoInput EXCEPT !.order = order, !.renFail = renFail])
       IN /\ w.done
          /\ Reply(c, [o EXCEPT !.fx = req.fx \o @], TRUE, req.ver)

\* transactions.wait times out: the awaited BMD version has not been installed
\* (or the record has been removed meanwhile), the commit returns the error
WaitTimeout(uuid) ==
    /\ waiting[uuid] # <<>>
    /\ txns[uuid] # <<>> => bmdVer < txns[uuid][1].bmdVer
    /\ LET req == waiting[uuid][1]
           c == prepTxnServer(req.action, ActCommit, uuid, req.value)
       IN Reply(c, Out("ErrTxnBmdTimeout", TxnState, req.fx, FALSE), TRUE, req.ver)

\* a new version of the BMD is installed
BMD(present) ==
    [b \in BckNames |-> IF b # present THEN <<>>
                        ELSE <<BProps(IF b = <<"a">> THEN 1 ELSE 2, TRUE, 2, FALSE)>>]
BMDs == {BMD(b) : b \in BckNames}

BmdInstall(b) ==
    /\ bmdVer < MaxBmdVer
    /\ bmdVer' = bmdVer + 1
    /\ bmdBcks' = b
    /\ tret' = <<>>
    /\ fx' = <<>>
    /\ UNCHANGED <<txns, waiting, capErr, mfsVars, getVars, capVars, pathVars, renVars, boot, lc>>

\* the capacity status gets or loses its error
CapChange ==
    /\ capErr' = ~capErr
    /\ tret' = <<>>
    /\ fx' = <<>>
    /\ UNCHANGED <<txns, waiting, bmdVer, bmdBcks, mfsVars, getVars, capVars, pathVars, renVars, boot, lc>>

\* the values a begin message may carry
Nprops == {BProps(0, FALSE, 1, FALSE), BProps(0, TRUE, NumMpaths, FALSE),
           BProps(0, TRUE, NumMpaths + 1, FALSE), BProps(0, FALSE, 1, TRUE)}
Values(action) ==
    IF action = ActMakeNCopies THEN 0..(NumMpaths + 1)
    ELSE IF action = ActSetBprops THEN Nprops
    ELSE IF action = ActRenameLB THEN {<<"b">>}
    ELSE {0}
CommitValues(action) == IF action = ActMakeNCopies THEN 1..NumMpaths ELSE {0}
RenOrders(action) == IF action = ActRenameLB THEN Orders(Get[1]) ELSE {<<>>}
RenFaults(action) == IF action = ActRenameLB THEN Faults ELSE {{}}

NextTxn ==
    \/ \E action \in Actions, uuid \in UUIDs :
          \E value \in Values(action) : Begin(action, uuid, value)
    \/ \E action \in Actions, uuid \in UUIDs : Abort(action, uuid)
    \/ \E action \in Actions, uuid \in UUIDs :
          \E value \in CommitValues(action), order \in RenOrders(action),
             renFail \in RenFaults(action) :
              Commit(action, uuid, value, order, renFail)
    \/ \E uuid \in UUIDs :
          \E order \in Orders(Get[1]), renFail \in Faults :
              WaitDone(uuid, order, renFail)
    \/ \E uuid \in UUIDs : WaitTimeout(uuid)
    \/ \E b \in BMDs : BmdInstall(b)
    \/ CapChange

\* the target is up: all mountpaths are Available, bucket "a" has data on
\* every mountpath, and the BMD lists "a" or, not yet, "b"
InitTxn ==
    /\ available = <<Mpaths>>
    /\ disabled = <<{}>>
    /\ fsIDs = <<>>
    /\ checkFsID = TRUE
    /\ ios = Mpaths
    /\ xattr = [p \in Mpaths |-> T1]
    /\ wr = <<>>
    /\ ret = Ret("Init", "nil", 0, FALSE, FALSE, <<>>)
    /\ tracing = TRUE
    /\ halted = FALSE
    /\ hist = NoHist
    /\ rd = [pc |-> "idle", avail |-> {}, dis |-> {}, torn |-> FALSE]
    /\ live = [n |-> 0, ok |-> {}]
    /\ dirs = [p \in RenDirs |-> IF \E mi \in Mpaths : p = FromDir(mi)
                                 THEN "data" ELSE "none"]
    /\ bpc = [mi \in Mpaths |-> <<>>]
    /\ rnRet = <<>>
    /\ txns = [u \in UUIDs |-> <<>>]
    /\ waiting = [u \in UUIDs |-> <<>>]
    /\ bmdVer = 0
    /\ bmdBcks \in BMDs
    /\ capErr = FALSE
    /\ tret = <<>>
    /\ fx = <<>>
    /\ IdleVars

SpecTxn == InitTxn /\ [][NextTxn]_vars

----------------------------------------------------------------------------
\* The request handled by the last step

IsReq(phase) == tret # <<>> /\ tret[1].phase = phase
WillBeReq(phase) == tret' # <<>> /\ tret'[1].phase = phase

\* C3. A begin that succeeds performs no side effect, touches no bucket
\* directory and no path cache, leaves the commits in flight and the records of
\* the other transactions as they were, and leaves a pending record with its
\* uuid.
C3_BeginOnlyRecords ==
    [][(WillBeReq(ActBegin) /\ tret'[1].err = "nil") =>
          /\ fx' = <<>>
          /\ dirs' = dirs
          /\ bpc' = bpc
          /\ waiting' = waiting
          /\ txns'[tret'[1].uuid] # <<>>
          /\ \A v \in UUIDs \ {tret'[1].uuid} : txns'[v] = txns[v]]_vars

\* a rename has begun: its record is pending
C3_Witness ==
    /\ IsReq(ActBegin)
    /\ tret[1].err = "nil"
    /\ tret[1].action = ActRenameLB
    /\ ~tret[1].had
    /\ txns[tret[1].uuid] # <<>>
    /\ txns[tret[1].uuid][1].kind = ActRenameLB

\* C4. A commit has performed side effects only if it found the record and the
\* installed BMD version has reached the version the transaction awaits; a
\* commit that is blocked waiting for the BMD, or that returns the BMD-timeout
\* error, has performed none, and the timeout is returned only while the awaited
\* version is not installed.
C4_EffectsAfterBmd ==
    IsReq(ActCommit) =>
        /\ fx # <<>> => /\ tret[1].had
                        /\ tret[1].txnVer <= bmdVer
                        /\ tret[1].err \notin {"blocked", "ErrTxnBmdTimeout"}
        /\ tret[1].err \in {"blocked", "ErrTxnBmdTimeout"} =>
              /\ fx = <<>>
              /\ tret[1].had
              /\ txns[tret[1].uuid] # <<>> => tret[1].txnVer > bmdVer

\* a rename commit that waited for the BMD has renamed the directories
C4_Witness ==
    /\ IsReq(ActCommit)
    /\ tret[1].action = ActRenameLB
    /\ tret[1].err = "nil"
    /\ tret[1].txnVer = bmdVer
    /\ \E i \in DOMAIN fx : fx[i].op = "RenameBucketDirs"
    /\ \A mi \in Get[1] : dirs[ToDir(mi)] = "data" /\ dirs[FromDir(mi)] = "none"

\* C5. A commit with a uuid that has no pending record returns the not-found
\* error and performs no side effect; a commit that succeeds found the record
\* and has removed it.
C5_CommitOnce ==
    (IsReq(ActCommit) /\ tret[1].err # "blocked") =>
        /\ ~tret[1].had => tret[1].err = "ErrTxnNotFound" /\ fx = <<>>
        /\ tret[1].err = "nil" => tret[1].had /\ txns[tret[1].uuid] = <<>>

\* C6. An abort returns success, leaves no record with its uuid and performs
\* no side effect.
C6_AbortAlwaysClears ==
    IsReq(ActAbort) =>
        /\ tret[1].err = "nil"
        /\ txns[tret[1].uuid] = <<>>
        /\ fx = <<>>

C8_MakeNCopiesValidation ==
    (IsReq(ActBegin) /\ tret[1].action = ActMakeNCopies) =>
        /\ (tret[1].err # "nil" /\ ~tret[1].had) => txns[tret[1].uuid] = <<>>
        /\ bmdBcks[<<"a">>] # <<>> =>
              IF \/ tret[1].value < 1
                 \/ tret[1].value > Cardinality(Get[1])
                 \/ (bmdBcks[<<"a">>][1].Mirror.Copies < tret[1].value /\ capErr)
              THEN tret[1].err # "nil"
              ELSE tret[1].value <= bmdBcks[<<"a">>][1].Mirror.Copies
                      => tret[1].err = "nil"

\* an increase of the copies was refused because of the capacity
C8_Witness ==
    /\ IsReq(ActBegin)
    /\ tret[1].action = ActMakeNCopies
    /\ capErr
    /\ bmdBcks[<<"a">>] # <<>>
    /\ tret[1].value > bmdBcks[<<"a">>][1].Mirror.Copies
    /\ tret[1].value <= Cardinality(Get[1])
    /\ tret[1].err = "ErrCapacity"
    /\ txns[tret[1].uuid] = <<>>

\* C23. A CreateBucket begin fails, and leaves no record behind, when the
\* bucket of the request is already in the BMD or when some Available
\* mountpath has a non-empty directory of that bucket.
C23_CreateValidated ==
    (/\ IsReq(ActBegin)
     /\ tret[1].action = ActCreateLB
     /\ \/ bmdBcks[<<"a">>] # <<>>
        \/ \E mi \in Get[1] : dirs[FromDir(mi)] = "data")
        => /\ tret[1].err # "nil"
           /\ ~tret[1].had => txns[tret[1].uuid] = <<>>

----------------------------------------------------------------------------
\* The sweeper of the transaction table

\* one tick of the clock: every pending record gets older; an age beyond
\* SweepAge is not counted further
tick(t) ==
    [u \in UUIDs |-> IF t[u] = <<>> THEN <<>>
                     ELSE <<[t[u][1] EXCEPT !.age = IF @ > SweepAge THEN @ ELSE @ + 1]>>]

\* variant: the sweeper leaves every record
sweepKeepsAll(t) == t

\* a pass of the sweeper: the records older than timeout x k are removed
sweep(t) ==
    [u \in UUIDs |-> IF t[u] # <<>> /\ t[u][1].age > SweepAge THEN <<>> ELSE t[u]]

Tick ==
    /\ \E u \in UUIDs : txns[u] # <<>> /\ txns[u][1].age <= SweepAge
    /\ txns' = tick(txns)
    /\ tret' = <<>>
    /\ fx' = <<>>
    /\ UNCHANGED <<waiting, bmdVer, bmdBcks, capErr, mfsVars, getVars, capVars, pathVars, renVars, boot, lc>>

Sweep ==
    /\ \E u \in UUIDs : txns[u] # <<>> /\ txns[u][1].age > SweepAge
    /\ txns' = sweep(txns)
    /\ tret' = <<>>
    /\ fx' = <<>>
    /\ UNCHANGED <<waiting, bmdVer, bmdBcks, capErr, mfsVars, getVars, capVars, pathVars, renVars, boot, lc>>

NextSweep == NextTxn \/ Tick \/ Sweep

\* as InitTxn, and what the requests return is not recorded
InitSweep ==
    /\ available = <<Mpaths>>
    /\ disabled = <<{}>>
    /\ fsIDs = <<>>
    /\ checkFsID = TRUE
    /\ ios = Mpaths
    /\ xattr = [p \in Mpaths |-> T1]
    /\ wr = <<>>
    /\ ret = Ret("Init", "nil", 0, FALSE, FALSE, <<>>)
    /\ tracing = FALSE
    /\ halted = FALSE
    /\ hist = NoHist
    /\ rd = [pc |-> "idle", avail |-> {}, dis |-> {}, torn |-> FALSE]
    /\ live = [n |-> 0, ok |-> {}]
    /\ dirs = [p \in RenDirs |-> IF \E mi \in Mpaths : p = FromDir(mi)
                                 THEN "data" ELSE "none"]
    /\ bpc = [mi \in Mpaths |-> <<>>]
    /\ rnRet = <<>>
    /\ txns = [u \in UUIDs |-> <<>>]
    /\ waiting = [u \in UUIDs |-> <<>>]
    /\ bmdVer = 0
    /\ bmdBcks \in BMDs
    /\ capErr = FALSE
    /\ tret = <<>>
    /\ fx = <<>>
    /\ IdleVars

\* the clock advances and the sweeper keeps running
SpecSweep ==
    InitSweep /\ [][NextSweep]_vars /\ WF_vars(Tick) /\ WF_vars(Sweep)

\* C9. Every pending record is eventually removed: by a commit, by an abort,
\* or by the sweeper once the record is older than timeout x k.
C9_PendingRemoved ==
    \A u \in UUIDs : (txns[u] # <<>>) ~> (txns[u] = <<>>)

\* a record that has outlived timeout x k and waits for the sweeper
C9_Witness ==
    \E u \in UUIDs : txns[u] # <<>> /\ txns[u][1].age > SweepAge

----------------------------------------------------------------------------
\* fs/mountfs.go: capacity management

\* cmn.GCO.Get(): the LRU watermarks (percent) and the two periods (seconds)
GCO == [LowWM |-> 75, HighWM |-> 90, OOS |-> 95,
        CapacityUpdTime |-> 600, StatsTime |-> 10]
\* the config argument of RefreshCapStatus: nil, or a config of its own
Configs == {<<>>,
            <<[LowWM |-> 60, HighWM |-> 80, OOS |-> 90,
               CapacityUpdTime |-> 300, StatsTime |-> 10]>>}

\* what syscall.Statfs reports for a mountpath, or its error
StatfsOf(blocks, bavail, bsize) ==
    [err |-> "nil", Blocks |-> blocks, Bavail |-> bavail, Bsize |-> bsize]
StatfsErr == [err |-> "EIO", Blocks |-> 0, Bavail |-> 0, Bsize |-> 0]
\* the filesystems differ in what a refresh may find: used 89.5% or 92%, or
\* a failing call; 96% or 95%; 0% or 95.5%
Statfs(p) ==
    IF p % 3 = 1 THEN <<StatfsOf(200, 21, 4), StatfsOf(200, 16, 4), StatfsErr>>
    ELSE IF p % 3 = 2 THEN <<StatfsOf(200, 8, 4), StatfsOf(100, 5, 8)>>
    ELSE <<StatfsOf(200, 200, 4), StatfsOf(200, 9, 4)>>

\* one finding for each mountpath of S
StatfsAll(S) ==
    {[p \in S |-> Statfs(p)[pick[p]]] :
        pick \in {k \in [S -> 1..3] : \A p \in S : k[p] <= Len(Statfs(p))}}

\* math.Ceil(float64(a) / float64(b)) for the magnitudes at hand
Ceil(a, b) == (a + b - 1) \div b

\* mi.getCapacity(config, true): the Capacity it stores in mi.capacity
getCapacity(config, statfs) ==
    IF statfs.err # "nil" THEN [err |-> statfs.err, c |-> NoCapacity]
    ELSE LET bused == statfs.Blocks - statfs.Bavail
             pct == (bused * 100) \div statfs.Blocks
         IN [err |-> "nil",
             c |-> [Used |-> bused * statfs.Bsize,
                    Avail |-> statfs.Bavail * statfs.Bsize,
                    PctUsed |-> IF pct >= config.HighWM - 1
                                THEN Ceil(bused * 100, statfs.Blocks)
                                ELSE pct]]

\* mpcap[path] = c
PutCap(mpcap, path, c) ==
    [q \in DOMAIN mpcap \cup {path} |-> IF q = path THEN c ELSE mpcap[q]]

\* the loop of RefreshCapStatus over availablePaths in one iteration order.
\* w: [cs, err, mpcap, capacity]
RECURSIVE capLoop(_, _, _, _)
capLoop(order, config, sf, w) ==
    IF order = <<>> \/ w.err # "nil" THEN w
    ELSE LET acc(path, g) ==
                 IF g.err # "nil" THEN [w EXCEPT !.err = g.err]
                 ELSE [w EXCEPT
                         !.cs.TotalUsed = @ + g.c.Used,
                         !.cs.TotalAvail = @ + g.c.Avail,
                         !.cs.PctMax = IF g.c.PctUsed > @ THEN g.c.PctUsed ELSE @,
                         !.cs.PctAvg = @ + g.c.PctUsed,
                         !.mpcap = PutCap(@, path, g.c),
                         !.capacity[path] = g.c]
         IN capLoop(Tail(order), config, sf,
                    acc(Head(order), getCapacity(config, sf[Head(order)])))

\* recompute the time to the next refresh from the cached average
nextRefresh(config, cs) ==
    LET util == cs.PctAvg
        umin == IF config.HighWM - 10 > config.LowWM
                THEN config.HighWM - 10 ELSE config.LowWM
        umax == config.OOS
        tmax == config.CapacityUpdTime
        tmin == config.StatsTime
    IN IF util <= umin THEN tmax
       ELSE IF util >= umax THEN tmin
       ELSE (((((util - umin) * 100) \div (umax - umin)) * (tmax - tmin))
                \div 100) + tmin

\* variant: the out-of-space flag is raised at the threshold already
refreshCapStatusOosAtThreshold(config0, order, sf, cap) ==
    LET config == IF config0 = <<>> THEN GCO ELSE config0[1]
        w0 == [cs |-> NoCapStatus, err |-> "nil", mpcap |-> <<>>,
               capacity |-> cap, cached |-> FALSE, config |-> config]
        fin(w) ==
            IF w.err # "nil" THEN w
            ELSE LET oos == w.cs.PctMax >= config.OOS IN
                 [w EXCEPT
                    !.cs.PctAvg = @ \div Len(order),
                    !.cs.OOS = oos,
                    !.cs.Err = IF oos \/ w.cs.PctMax > config.HighWM
                               THEN "ErrCapacityExceeded" ELSE "nil",
                    !.cached = TRUE]
    IN IF order = <<>> THEN [w0 EXCEPT !.err = "ErrNoMountpaths"]
       ELSE fin(capLoop(order, config, sf, w0))

\* RefreshCapStatus up to the store of the cached status
refreshCapStatus(config0, order, sf, cap) ==
    LET config == IF config0 = <<>> THEN GCO ELSE config0[1]
        w0 == [cs |-> NoCapStatus, err |-> "nil", mpcap |-> <<>>,
               capacity |-> cap, cached |-> FALSE, config |-> config]
        fin(w) ==
            IF w.err # "nil" THEN w
            ELSE LET oos == w.cs.PctMax > config.OOS IN
                 [w EXCEPT
                    !.cs.PctAvg = @ \div Len(order),
                    !.cs.OOS = oos,
                    !.cs.Err = IF oos \/ w.cs.PctMax > config.HighWM
                               THEN "ErrCapacityExceeded" ELSE "nil",
                    !.cached = TRUE]
    IN IF order = <<>> THEN [w0 EXCEPT !.err = "ErrNoMountpaths"]
       ELSE fin(capLoop(order, config, sf, w0))

GetCapStatus == capStatus

RefreshCapStatus(config0, order, sf) ==
    /\ LET done(w) ==
               /\ capacity' = w.capacity
               /\ capStatus' = IF w.cached THEN w.cs ELSE capStatus
               /\ capTime' = IF w.cached
                             THEN [curr |-> 0, next |-> nextRefresh(w.config, w.cs)]
                             ELSE capTime
               /\ capRet' = <<[cs |-> w.cs, err |-> w.err, mpcap |-> w.mpcap,
                               config |-> w.config, avail |-> Get[1]]>>
       IN done(refreshCapStatus(config0, order, sf, capacity))
    /\ putRet' = <<>>
    /\ UNCHANGED <<mfsVars, getVars, renVars, txnVars, pathVars, boot, lc>>

----------------------------------------------------------------------------
\* the S3 direct PUT of the target (directPutObjS3)

\* variant: the PUT is refused whenever the cached status carries an error
directPutObjS3OnErr(cs, items, bmd, lomErr, putErr) ==
    LET inited(i) ==
            IF i.err # "nil" THEN [err |-> i.err, work |-> <<"bck.Init">>]
            ELSE IF Len(items) < 2
                 THEN [err |-> "errS3Obj", work |-> <<"bck.Init">>]
            ELSE IF lomErr
                 THEN [err |-> "ErrLomInit", work |-> <<"bck.Init", "lom.Init">>]
            ELSE [err |-> IF putErr THEN "ErrPut" ELSE "nil",
                  work |-> <<"bck.Init", "lom.Init", "doPut">>]
    IN IF cs.Err # "nil" THEN [err |-> cs.Err, work |-> <<>>]
       ELSE inited(bckInit(Bck(items[1], ProviderAIS, NsGlobal, <<>>),
                           [bmdBcks |-> bmd]))

\* the error written to the client and the steps taken past the capacity gate
directPutObjS3(cs, items, bmd, lomErr, putErr) ==
    LET inited(i) ==
            IF i.err # "nil" THEN [err |-> i.err, work |-> <<"bck.Init">>]
            ELSE IF Len(items) < 2
                 THEN [err |-> "errS3Obj", work |-> <<"bck.Init">>]
            ELSE IF lomErr
                 THEN [err |-> "ErrLomInit", work |-> <<"bck.Init", "lom.Init">>]
            ELSE [err |-> IF putErr THEN "ErrPut" ELSE "nil",
                  work |-> <<"bck.Init", "lom.Init", "doPut">>]
    IN IF cs.OOS THEN [err |-> cs.Err, work |-> <<>>]
       ELSE inited(bckInit(Bck(items[1], ProviderAIS, NsGlobal, <<>>),
                           [bmdBcks |-> bmd]))

DirectPutObjS3(items, lomErr, putErr) ==
    /\ LET done(r) ==
               putRet' = <<[err |-> r.err, work |-> r.work, cs |-> GetCapStatus]>>
       IN done(directPutObjS3(GetCapStatus, items, bmdBcks, lomErr, putErr))
    /\ capRet' = <<>>
    /\ UNCHANGED <<capacity, capStatus, capTime>>
    /\ UNCHANGED <<mfsVars, getVars, renVars, txnVars, pathVars, boot, lc>>

\* the URL items of a PUT: the bucket alone, or the bucket and an object name
PutItems == {<<b>> : b \in BckNames} \cup {<<b, <<"o">>>> : b \in BckNames}

NextCap ==
    \/ \E config0 \in Configs, order \in Orders(Get[1]), sf \in StatfsAll(Get[1]) :
         RefreshCapStatus(config0, order, sf)
    \/ \E items \in PutItems, lomErr \in BOOLEAN, putErr \in BOOLEAN :
         DirectPutObjS3(items, lomErr, putErr)

\* a booted target: any set of mountpaths is Available, the others Disabled
InitCap ==
    /\ \E S \in SUBSET Mpaths :
         /\ available = <<S>>
         /\ disabled = <<Mpaths \ S>>
         /\ ios = S
    /\ fsIDs = <<>>
    /\ checkFsID = FALSE
    /\ xattr = [p \in Mpaths |-> T1]
    /\ wr = <<>>
    /\ ret = Ret("Init", "nil", 0, FALSE, FALSE, <<>>)
    /\ tracing = FALSE
    /\ halted = FALSE
    /\ hist = NoHist
    /\ rd = [pc |-> "idle", avail |-> {}, dis |-> {}, torn |-> FALSE]
    /\ live = [n |-> 0, ok |-> {}]
    /\ IdleRenVars
    /\ txns = [u \in UUIDs |-> <<>>]
    /\ waiting = [u \in UUIDs |-> <<>>]
    /\ bmdVer = 0
    /\ bmdBcks \in BMDs
    /\ capErr = FALSE
    /\ tret = <<>>
    /\ fx = <<>>
    /\ IdleVars

SpecCap == InitCap /\ [][NextCap]_vars

\* the sum of f over the set S
RECURSIVE SumOver(_, _)
SumOver(f, S) ==
    IF S = {} THEN 0
    ELSE LET x == CHOOSE y \in S : TRUE IN f[x] + SumOver(f, S \ {x})

\* C16. After a successful RefreshCapStatus over n >= 1 Available mountpaths
\* with used-percentages p_1..p_n, the returned status is the cached one and
\* has PctAvg = floor(sum p_i / n), PctMax = max p_i, TotalUsed and TotalAvail
\* the sums of the mountpaths' values, OOS iff PctMax > the out-of-space
\* threshold, and Err set iff OOS or PctMax > the high watermark.
C16_CapAggregate ==
    (capRet # <<>> /\ capRet[1].err = "nil") =>
        LET r == capRet[1]
            cs == r.cs
            n == Cardinality(r.avail)
            pct == [p \in r.avail |-> r.mpcap[p].PctUsed]
        IN /\ n >= 1
           /\ DOMAIN r.mpcap = r.avail
           /\ capStatus = cs
           /\ GetCapStatus = cs
           /\ cs.PctAvg * n <= SumOver(pct, r.avail)
           /\ SumOver(pct, r.avail) < (cs.PctAvg + 1) * n
           /\ \A p \in r.avail : pct[p] <= cs.PctMax
           /\ \E p \in r.avail : pct[p] = cs.PctMax
           /\ cs.TotalUsed = SumOver([p \in r.avail |-> r.mpcap[p].Used], r.avail)
           /\ cs.TotalAvail = SumOver([p \in r.avail |-> r.mpcap[p].Avail], r.avail)
           /\ cs.OOS <=> cs.PctMax > r.config.OOS
           /\ cs.Err # "nil" <=> (cs.OOS \/ cs.PctMax > r.config.HighWM)

\* the refresh over [92, 96] with high = 90 and oos = 95: average 94, maximum
\* 96, out of space, error set
C16_Witness ==
    /\ capRet # <<>>
    /\ capRet[1].err = "nil"
    /\ capRet[1].config.HighWM = 90
    /\ capRet[1].config.OOS = 95
    /\ \E p, q \in capRet[1].avail :
         /\ capRet[1].avail = {p, q}
         /\ p # q
         /\ capRet[1].mpcap[p].PctUsed = 92
         /\ capRet[1].mpcap[q].PctUsed = 96
    /\ capStatus.PctAvg = 94
    /\ capStatus.PctMax = 96
    /\ capStatus.OOS
    /\ capStatus.Err # "nil"

\* C17. A direct PUT is refused before any bucket or object work if and only
\* if the cached capacity status has OOS set: a status that only crossed the
\* high watermark (Err set, OOS false) does not block the PUT.
C17_PutGate ==
    putRet # <<>> =>
        /\ putRet[1].work = <<>> <=> putRet[1].cs.OOS
        /\ putRet[1].work = <<>> => putRet[1].err = putRet[1].cs.Err

\* a PUT is admitted and done while the cached status carries the
\* high-watermark error
C17_Witness ==
    /\ putRet # <<>>
    /\ putRet[1].cs.Err # "nil"
    /\ ~putRet[1].cs.OOS
    /\ putRet[1].err = "nil"
    /\ putRet[1].work = <<"bck.Init", "lom.Init", "doPut">>

\* the interval nextRefresh gives for the average utilization util
Interval(config, util) == nextRefresh(config, [NoCapStatus EXCEPT !.PctAvg = util])

\* C29. The interval to the next refresh that a refresh stores is a linear
\* interpolation in the cached average utilization u: it is
\* capacity_update_time for u at or below the lower threshold
\* (high watermark - 10) and stats_time for u at or above the out-of-space
\* threshold; it lies between the two; no greater utilization gets a longer
\* interval; and next to either threshold it is within two steps of the
\* interpolation (a step: the range of the interval over the range of u) of
\* the value at the threshold.
C29_Interpolation ==
    (capRet # <<>> /\ capRet[1].err = "nil") =>
        LET c == capRet[1].config
            u == capStatus.PctAvg
            d == capTime.next - capTime.curr
            umin == c.HighWM - 10
            umax == c.OOS
            tmax == c.CapacityUpdTime
            tmin == c.StatsTime
            step == Ceil(tmax - tmin, umax - umin)
        IN /\ d = Interval(c, u)
           /\ u <= umin => d = tmax
           /\ u >= umax => d = tmin
           /\ tmin <= d /\ d <= tmax
           /\ \A v \in u..100 : Interval(c, v) <= d
           /\ u = umin + 1 => tmax - d <= 2 * step
           /\ u = umax - 1 => d - tmin <= 2 * step

----------------------------------------------------------------------------
\* The path composer of one mountpath under any sequence of calls

WorkfileType == <<"w", "k">>
ContentTypes == {ObjectType, WorkfileType}
ObjNames == {<<"o">>, <<"o", Separator, "p">>}

\* bucket ids the BMD hands out
Bids == {1, 2}

\* the callers' buckets: two names, the global and a remote namespace, and
\* props that are nil or carry a bucket id
PathBcks ==
    {Bck(name, ProviderAIS, ns, props) :
        name \in BckNames,
        ns \in {NsGlobal, [UUID |-> <<"u">>, Name |-> <<"n">>]},
        props \in {<<>>} \cup {<<[BID |-> b]>> : b \in Bids}}

\* the logical identity of a bucket
Triple(bck) == <<bck.Provider, bck.Ns, bck.Name>>

PcRet(op, mi, bck, ct, obj, bid, path) ==
    <<[op |-> op, mi |-> mi, bck |-> bck, ct |-> ct, obj |-> obj, bid |-> bid,
       path |-> path, before |-> bpc[mi]]>>

\* the bucket's props, if any, are those the BMD holds for it
Carries(bck) ==
    IF bck.Props = <<>> THEN TRUE ELSE owner[bck.Props[1].BID] = Triple(bck)

\* the BMD assigns a free bid to a bucket that has none
Assign(bid, bck) ==
    /\ owner[bid] = <<>>
    /\ \A b \in Bids : owner[b] # Triple(bck)
    /\ owner' = [owner EXCEPT ![bid] = Triple(bck)]
    /\ pcRet' = <<>>
    /\ UNCHANGED <<renVars, mfsVars, getVars, txnVars, capVars, boot, lc>>

PathBck(mi, bck) ==
    /\ Carries(bck)
    /\ LET done(r) ==
               /\ bpc' = [bpc EXCEPT ![mi] = r.m]
               /\ pcRet' = PcRet("MakePathBck", mi, bck, <<>>, <<>>, 0, r.dir)
       IN done(MakePathBck(mi, bpc[mi], bck))
    /\ UNCHANGED <<owner, dirs, rnRet, mfsVars, getVars, txnVars, capVars, boot, lc>>

PathCT(mi, bck, contentType) ==
    /\ Carries(bck)
    /\ pcRet' = PcRet("MakePathCT", mi, bck, contentType, <<>>, 0,
                      MakePathCT(mi, bpc[mi], bck, contentType))
    /\ UNCHANGED <<owner, renVars, mfsVars, getVars, txnVars, capVars, boot, lc>>

PathFQN(mi, bck, contentType, objName) ==
    /\ Carries(bck)
    /\ pcRet' = PcRet("MakePathFQN", mi, bck, contentType, objName, 0,
                      MakePathFQN(mi, bpc[mi], bck, contentType, objName))
    /\ UNCHANGED <<owner, renVars, mfsVars, getVars, txnVars, capVars, boot, lc>>

\* makeDelPathBck as DestroyBucket calls it on the mountpath, for a bucket
\* the BMD has just dropped: its bid is free again
DelPathBck(mi, bck, bid) ==
    /\ owner[bid] = Triple(bck)
    /\ Carries(bck)
    /\ LET done(r) ==
               /\ bpc' = [bpc EXCEPT ![mi] = r.m]
               /\ pcRet' = PcRet("makeDelPathBck", mi, bck, <<>>, <<>>, bid, r.dir)
       IN done(makeDelPathBck(mi, bpc[mi], bck, bid))
    /\ owner' = [owner EXCEPT ![bid] = <<>>]
    /\ UNCHANGED <<dirs, rnRet, mfsVars, getVars, txnVars, capVars, boot, lc>>

NextPath ==
    \/ \E bid \in Bids, bck \in PathBcks : Assign(bid, bck)
    \/ \E mi \in Get[1], bck \in PathBcks : PathBck(mi, bck)
    \/ \E mi \in Get[1], bck \in PathBcks, ct \in ContentTypes : PathCT(mi, bck, ct)
    \/ \E mi \in Get[1], bck \in PathBcks, ct \in ContentTypes, obj \in ObjNames :
         PathFQN(mi, bck, ct, obj)
    \/ \E mi \in Get[1], bck \in PathBcks, bid \in Bids : DelPathBck(mi, bck, bid)

\* one mountpath is Available; its cache is empty (newMountpath) and no bid
\* is assigned
InitPath ==
    /\ \E p \in Mpaths :
         /\ available = <<{p}>>
         /\ disabled = <<{}>>
         /\ ios = {p}
    /\ fsIDs = <<>>
    /\ checkFsID = FALSE
    /\ xattr = [p \in Mpaths |-> T1]
    /\ wr = <<>>
    /\ ret = Ret("Init", "nil", 0, FALSE, FALSE, <<>>)
    /\ tracing = FALSE
    /\ halted = FALSE
    /\ hist = NoHist
    /\ rd = [pc |-> "idle", avail |-> {}, dis |-> {}, torn |-> FALSE]
    /\ live = [n |-> 0, ok |-> {}]
    /\ dirs = <<>>
    /\ bpc = [mi \in Mpaths |-> <<>>]
    /\ rnRet = <<>>
    /\ IdleTxnVars
    /\ IdleCapVars
    /\ pcRet = <<>>
    /\ owner = [b \in Bids |-> <<>>]
    /\ boot = NoBoot
    /\ lc = <<>>

SpecPath == InitPath /\ [][NextPath]_vars

\* C18. After makeDelPathBck(bck, bid) with a non-zero bid returns, whether
\* the bid was cached or not, the mountpath's path cache holds no entry for
\* that bid (so that the next MakePathBck/MakePathCT of a bucket carrying the
\* bid composes the path from that bucket's provider, namespace and name).
C18_DelInvalidates ==
    (pcRet # <<>> /\ pcRet[1].op = "makeDelPathBck" /\ pcRet[1].bid # 0) =>
        pcRet[1].bid \notin DOMAIN bpc[pcRet[1].mi]

\* C19. Whatever calls came before on the mountpath (whatever its cache
\* holds), MakePathCT and MakePathFQN return the path composed from their
\* arguments alone: the result they give with an empty cache.
C19_PureComposition ==
    pcRet # <<>> =>
        LET r == pcRet[1] IN
        /\ r.op = "MakePathCT" => r.path = MakePathCT(r.mi, <<>>, r.bck, r.ct)
        /\ r.op = "MakePathFQN" =>
               r.path = MakePathFQN(r.mi, <<>>, r.bck, r.ct, r.obj)

\* C20. On a mountpath, in every state of its cache, two distinct
\* (bucket, content type, object name) triples of buckets the BMD knows never
\* get the same path from
\* MakePathFQN, and two distinct (bucket, content type) pairs never get the
\* same path from MakePathCT.
C20_Injective ==
    \A mi \in Get[1] :
        \A b1, b2 \in {b \in PathBcks : Carries(b)}, c1, c2 \in ContentTypes :
            (Triple(b1) # Triple(b2) \/ c1 # c2) =>
                /\ MakePathCT(mi, bpc[mi], b1, c1) # MakePathCT(mi, bpc[mi], b2, c2)
                /\ \A o1, o2 \in ObjNames :
                       MakePathFQN(mi, bpc[mi], b1, c1, o1)
                           # MakePathFQN(mi, bpc[mi], b2, c2, o2)

----------------------------------------------------------------------------
\* fs/mountfs.go: the creation of the bucket directories, and the arrival of
\* a BMD that lists a new bucket

ECType == <<"e", "c">>
\* fs.CSM.RegisteredContentTypes
RegisteredContentTypes == ContentTypes \cup {ECType}

\* the bucket of the transaction requests
LcBck(props) == Bck(<<"a">>, ProviderAIS, NsGlobal, props)
CtDir(mi, ct) == makePathBuf(mi, <<>>, LcBck(<<>>), ct)

\* the mountpaths that are Available while the directories are created
LcMpaths == {1, 2}
CtDirs == {CtDir(mi, ct) : mi \in LcMpaths, ct \in RegisteredContentTypes}

\* variant: with a nil BMD the first directory that exists ends the loop
RECURSIVE createBckDirsNilBmdStops(_, _, _, _, _, _, _)
createBckDirsNilBmdStops(order, mi, m, bck, nilbmd, ioFail, w) ==
    IF order = <<>> \/ w.stop THEN w
    ELSE LET contentType == Head(order)
             step(dir) ==
                 IF w.d[dir] # "none"
                 THEN IF nilbmd THEN [w EXCEPT !.stop = TRUE]
                      ELSE IF <<mi, contentType>> \in ioFail
                      THEN [w EXCEPT !.err = "EIO", !.stop = TRUE]
                      ELSE IF w.d[dir] = "data" /\ contentType # WorkfileType
                      THEN [w EXCEPT !.err = "ErrBucketDirNotEmpty", !.stop = TRUE]
                      ELSE [w EXCEPT !.num = @ + 1]
                 ELSE IF <<mi, contentType>> \in ioFail
                 THEN [w EXCEPT !.err = "ErrCreateDir", !.stop = TRUE]
                 ELSE [w EXCEPT !.d[dir] = "empty", !.num = @ + 1]
         IN createBckDirsNilBmdStops(Tail(order), mi, m, bck, nilbmd, ioFail,
                                     step(MakePathCT(mi, m, bck, contentType)))

\* variant: a workfile directory that is not empty fails the creation too
RECURSIVE createBckDirsNoException(_, _, _, _, _, _, _)
createBckDirsNoException(order, mi, m, bck, nilbmd, ioFail, w) ==
    IF order = <<>> \/ w.stop THEN w
    ELSE LET contentType == Head(order)
             step(dir) ==
                 IF w.d[dir] # "none"
                 THEN IF nilbmd THEN [w EXCEPT !.num = @ + 1]
                      ELSE IF <<mi, contentType>> \in ioFail
                      THEN [w EXCEPT !.err = "EIO", !.stop = TRUE]
                      ELSE IF w.d[dir] = "data"
                      THEN [w EXCEPT !.err = "ErrBucketDirNotEmpty", !.stop = TRUE]
                      ELSE [w EXCEPT !.num = @ + 1]
                 ELSE IF <<mi, contentType>> \in ioFail
                 THEN [w EXCEPT !.err = "ErrCreateDir", !.stop = TRUE]
                 ELSE [w EXCEPT !.d[dir] = "empty", !.num = @ + 1]
         IN createBckDirsNoException(Tail(order), mi, m, bck, nilbmd, ioFail,
                                     step(MakePathCT(mi, m, bck, contentType)))

\* mi.createBckDirs: the loop over the registered content types in one
\* iteration order. w: [d, num, err, stop]; ioFail: the (mountpath, content
\* type) pairs where IsDirEmpty or CreateDir meets an I/O error
RECURSIVE createBckDirs(_, _, _, _, _, _, _)
createBckDirs(order, mi, m, bck, nilbmd, ioFail, w) ==
    IF order = <<>> \/ w.stop THEN w
    ELSE LET contentType == Head(order)
             step(dir) ==
                 IF w.d[dir] # "none"
                 THEN IF nilbmd THEN [w EXCEPT !.num = @ + 1]
                      ELSE IF <<mi, contentType>> \in ioFail
                      THEN [w EXCEPT !.err = "EIO", !.stop = TRUE]
                      ELSE IF w.d[dir] = "data" /\ contentType # WorkfileType
                      THEN [w EXCEPT !.err = "ErrBucketDirNotEmpty", !.stop = TRUE]
                      ELSE [w EXCEPT !.num = @ + 1]
                 ELSE IF <<mi, contentType>> \in ioFail
                 THEN [w EXCEPT !.err = "ErrCreateDir", !.stop = TRUE]
                 ELSE [w EXCEPT !.d[dir] = "empty", !.num = @ + 1]
         IN createBckDirs(Tail(order), mi, m, bck, nilbmd, ioFail,
                          step(MakePathCT(mi, m, bck, contentType)))

\* fs.CreateBucket: the loop over availablePaths. v: [d, errs, res], res the
\* (num, err) of each mountpath
RECURSIVE CreateBucket(_, _, _, _, _, _, _)
CreateBucket(mpaths, c, bck, nilbmd, order, ioFail, v) ==
    IF mpaths = <<>> THEN v
    ELSE LET mi == Head(mpaths)
             acc(w) ==
                 [d |-> w.d,
                  errs |-> IF w.err # "nil" THEN Append(v.errs, w.err) ELSE v.errs,
                  res |-> [p \in DOMAIN v.res \cup {mi} |->
                              IF p = mi THEN [num |-> w.num, err |-> w.err]
                              ELSE v.res[p]]]
         IN CreateBucket(Tail(mpaths), c, bck, nilbmd, order, ioFail,
                         acc(createBckDirs(order, mi, c[mi], bck, nilbmd, ioFail,
                                           [d |-> v.d, num |-> 0, err |-> "nil",
                                            stop |-> FALSE])))

\* The arrival of the BMD b: the directories of the buckets it adds are
\* created under the BMD lock; if a creation fails the new BMD is not accepted.
\* nilbmd: no BMD was present (then the local BMD lists no bucket). A BMD
\* that was refused is not sent again.
BmdReceive(b, nilbmd, order, ioFail) ==
    /\ bmdVer < MaxBmdVer
    /\ lc = <<>>
    /\ nilbmd => \A n \in BckNames : bmdBcks[n] = <<>>
    /\ LET new == b[<<"a">>] # <<>> /\ bmdBcks[<<"a">>] = <<>>
           mpaths == CHOOSE o \in Orders(Get[1]) : TRUE
           v0 == [d |-> dirs, errs |-> <<>>, res |-> <<>>]
           done(v) ==
               /\ dirs' = v.d
               /\ bmdVer' = IF v.errs = <<>> THEN bmdVer + 1 ELSE bmdVer
               /\ bmdBcks' = IF v.errs = <<>> THEN b ELSE bmdBcks
               /\ lc' = IF new
                        THEN <<[op |-> "CreateBucket", nilbmd |-> nilbmd,
                                order |-> order, ioFail |-> ioFail,
                                before |-> dirs, errs |-> v.errs, res |-> v.res]>>
                        ELSE <<>>
       IN done(IF new
               THEN CreateBucket(mpaths, bpc, LcBck(b[<<"a">>]), nilbmd, order,
                                 ioFail, v0)
               ELSE v0)
    /\ tret' = <<>>
    /\ fx' = <<>>
    /\ UNCHANGED <<txns, waiting, capErr, bpc, rnRet>>
    /\ UNCHANGED <<mfsVars, getVars, capVars, pathVars, boot>>

\* a BMD that lists no bucket
NoBuckets == [b \in BckNames |-> <<>>]

\* an I/O error meets at most one directory, on mountpath 1
CtFaults == {{}} \cup {{<<1, ct>>} : ct \in RegisteredContentTypes}

NextCreate ==
    \/ Begin(ActCreateLB, "u1", 0)
    \/ Abort(ActCreateLB, "u1")
    \/ Commit(ActCreateLB, "u1", 0, <<>>, {})
    \/ WaitDone("u1", <<>>, {})
    \/ WaitTimeout("u1")
    \/ \E b \in {NoBuckets, BMD(<<"a">>)}, nilbmd \in BOOLEAN,
          order \in Orders(RegisteredContentTypes), ioFail \in CtFaults :
           BmdReceive(b, nilbmd, order, ioFail)

\* mountpaths 1 and 2 are Available; the BMD lists no bucket yet; each content
\* directory of the bucket on mountpath 1 is missing, empty or not empty, and
\* so are, all alike, those on mountpath 2
InitCreate ==
    /\ available = <<LcMpaths>>
    /\ disabled = <<Mpaths \ LcMpaths>>
    /\ fsIDs = <<>>
    /\ checkFsID = TRUE
    /\ ios = LcMpaths
    /\ xattr = [p \in Mpaths |-> T1]
    /\ wr = <<>>
    /\ ret = Ret("Init", "nil", 0, FALSE, FALSE, <<>>)
    /\ tracing = TRUE
    /\ halted = FALSE
    /\ hist = NoHist
    /\ rd = [pc |-> "idle", avail |-> {}, dis |-> {}, torn |-> FALSE]
    /\ live = [n |-> 0, ok |-> {}]
    /\ dirs \in {d \in [CtDirs -> {"none", "empty", "data"}] :
                    \A ct \in RegisteredContentTypes :
                        d[CtDir(2, ct)] = d[CtDir(2, ObjectType)]}
    /\ bpc = [mi \in Mpaths |-> <<>>]
    /\ rnRet = <<>>
    /\ txns = [u \in UUIDs |-> <<>>]
    /\ waiting = [u \in UUIDs |-> <<>>]
    /\ bmdVer = 0
    /\ bmdBcks = NoBuckets
    /\ capErr = FALSE
    /\ tret = <<>>
    /\ fx = <<>>
    /\ IdleVars

SpecCreate == InitCreate /\ [][NextCreate]_vars

C25_DirNotEmpty ==
    (lc # <<>> /\ lc[1].op = "CreateBucket") =>
        LET c == lc[1] IN
        \A mi \in DOMAIN c.res :
            (\A ct \in RegisteredContentTypes : <<mi, ct>> \notin c.ioFail) =>
                IF c.nilbmd
                THEN /\ c.res[mi].err = "nil"
                     /\ \A ct \in RegisteredContentTypes :
                            c.before[CtDir(mi, ct)] # "none" =>
                                dirs[CtDir(mi, ct)] = c.before[CtDir(mi, ct)]
                ELSE (\E ct \in RegisteredContentTypes \ {WorkfileType} :
                          c.before[CtDir(mi, ct)] = "data")
                         <=> c.res[mi].err = "ErrBucketDirNotEmpty"

\* C25 as stated: with nil_bmd false, a directory of any registered content
\* type that exists and is not empty fails the creation on that mountpath.
C25_AsStated ==
    (lc # <<>> /\ lc[1].op = "CreateBucket" /\ ~lc[1].nilbmd) =>
        \A mi \in DOMAIN lc[1].res :
            (/\ \A ct \in RegisteredContentTypes : <<mi, ct>> \notin lc[1].ioFail
             /\ \E ct \in RegisteredContentTypes :
                    lc[1].before[CtDir(mi, ct)] = "data")
                => lc[1].res[mi].err = "ErrBucketDirNotEmpty"

\* with nil_bmd false the creation went through on mountpath 1, where only
\* the workfile directory was not empty, and failed on mountpath 2
C25_Witness ==
    /\ lc # <<>>
    /\ lc[1].op = "CreateBucket"
    /\ ~lc[1].nilbmd
    /\ lc[1].ioFail = {}
    /\ lc[1].before[CtDir(1, WorkfileType)] = "data"
    /\ lc[1].res[1].err = "nil"
    /\ lc[1].before[CtDir(2, ObjectType)] = "data"
    /\ lc[1].res[2].err = "ErrBucketDirNotEmpty"

\* with nil_bmd true the creation went through over a directory that was not
\* empty
C25_WitnessNilBmd ==
    /\ lc # <<>>
    /\ lc[1].op = "CreateBucket"
    /\ lc[1].nilbmd
    /\ lc[1].ioFail = {}
    /\ lc[1].before[CtDir(1, ObjectType)] = "data"
    /\ lc[1].res[1].err = "nil"

----------------------------------------------------------------------------
\* fs/mountfs.go: MoveToTrash and DestroyBucket

TrashDir == "$trash"
MakePathTrash(mi) == MiPath(mi) \o <<Separator, TrashDir>>

\* the readings of mono.NanoTime()
MaxNano == 2
Nanos == 1..MaxNano
\* filepath.Join(trashDir, fmt.Sprintf("$dir-%d", mono.NanoTime()))
TmpDir(mi, nanos) == MakePathTrash(mi) \o <<Separator, "$dir-", nanos>>

DelDirs ==
    {FromDir(mi) : mi \in Mpaths} \cup {MakePathTrash(mi) : mi \in Mpaths}
        \cup {TmpDir(mi, t) : mi \in Mpaths, t \in Nanos}

\* cos.CreateDir(dir): the directory exists afterwards
CreateDir(d, dir, fault) ==
    IF fault THEN [err |-> "EIO", d |-> d]
    ELSE [err |-> "nil",
          d |-> IF d[dir] = "none" THEN [d EXCEPT ![dir] = "empty"] ELSE d]

\* os.IsExist(err)
IsExist(err) == err \in {"EEXIST", "ENOTEMPTY"}
\* os.IsNotExist(err)
IsNotExist(err) == err = "ENOENT"

\* One pass of mi.MoveToTrash(dir): from its entry (retry FALSE) or from the
\* Retry label (retry TRUE); again: the pass ended in `goto Retry`. nanos is
\* the reading of the clock; cdFail, rnFail: CreateDir and Rename meet an I/O
\* error; gone: someone removed dir before the rename.
MoveToTrash(mi, d, dir, retry, nanos, cdFail, rnFail, gone) ==
    IF ~retry /\ d[dir] = "none"
    THEN [d |-> d, err |-> "nil", again |-> FALSE]
    ELSE LET trashDir == MakePathTrash(mi)
             ren(r) ==
                 IF r.err = "nil"
                 THEN [d |-> [r.d EXCEPT ![trashDir] = "data"], err |-> "nil",
                       again |-> FALSE]
                 ELSE IF IsExist(r.err)
                 THEN [d |-> r.d, err |-> "nil", again |-> TRUE]
                 ELSE IF IsNotExist(r.err)
                 THEN [d |-> r.d, err |-> "nil", again |-> FALSE]
                 ELSE [d |-> r.d, err |-> r.err, again |-> FALSE]
             mk(c) ==
                 IF c.err # "nil" THEN [d |-> d, err |-> c.err, again |-> FALSE]
                 ELSE ren(osRename(IF gone THEN [c.d EXCEPT ![dir] = "none"]
                                   ELSE c.d,
                                   dir, TmpDir(mi, nanos), rnFail))
         IN mk(CreateDir(d, trashDir, cdFail))

\* the bucket that is destroyed (its bid is 1)
DelBck == RenFrom(FALSE)

\* DestroyBucket up to its loop: availablePaths in one iteration order
DestroyBucket(order) ==
    /\ lc = <<>>
    /\ lc' = <<[op |-> "DestroyBucket", rest |-> order, count |-> Len(order),
                n |-> 0, dir |-> <<>>, retry |-> FALSE, tmp |-> 0,
                res |-> <<>>, before |-> dirs, done |-> FALSE, err |-> "nil"]>>
    /\ UNCHANGED <<mfsVars, getVars, renVars, txnVars, capVars, pathVars, boot>>

\* variant: the error is returned only when most mountpaths failed
destroyRetMajority(n, count) ==
    IF 2 * n < count THEN "ErrDestroy" ELSE "nil"

\* what DestroyBucket returns after the loop
destroyRet(n, count) ==
    IF n < count THEN "ErrDestroy" ELSE "nil"

\* One iteration of DestroyBucket's loop, or one more pass of the MoveToTrash
\* it is in; after the last mountpath DestroyBucket returns.
MoveStep(nanos, cdFail, rnFail, gone) ==
    /\ lc # <<>>
    /\ lc[1].op = "DestroyBucket"
    /\ lc[1].rest # <<>>
    /\ LET c == lc[1]
           mi == Head(c.rest)
           fin(w) ==
               IF w.rest = <<>>
               THEN [w EXCEPT !.done = TRUE, !.err = destroyRet(w.n, w.count)]
               ELSE w
           acc(p, r) ==
               /\ dirs' = r.d
               /\ bpc' = [bpc EXCEPT ![mi] = p.m]
               /\ lc' = IF r.again
                        THEN <<[c EXCEPT !.dir = p.dir, !.retry = TRUE,
                                         !.tmp = nanos]>>
                        ELSE <<fin([c EXCEPT
                                 !.rest = Tail(@), !.dir = <<>>,
                                 !.retry = FALSE, !.tmp = 0,
                                 !.n = IF r.err = "nil" THEN @ + 1 ELSE @,
                                 !.res = [q \in DOMAIN @ \cup {mi} |->
                                             IF q = mi THEN r.err ELSE @[q]]])>>
           pass(p) ==
               acc(p, MoveToTrash(mi, dirs, p.dir, c.retry, nanos, cdFail,
                                  rnFail, gone))
       IN pass(IF c.retry THEN [dir |-> c.dir, m |-> bpc[mi]]
               ELSE makeDelPathBck(mi, bpc[mi], DelBck, 1))
    /\ UNCHANGED <<mfsVars, getVars, rnRet, txnVars, capVars, pathVars, boot>>

NextDestroy ==
    \/ \E order \in IF lc = <<>> THEN Orders(Get[1]) ELSE {} :
           DestroyBucket(order)
    \/ \E nanos \in Nanos, cdFail \in BOOLEAN, rnFail \in BOOLEAN,
          gone \in BOOLEAN :
           MoveStep(nanos, cdFail, rnFail, gone)

\* every mountpath is Available; each has no, an empty or a non-empty
\* directory of the bucket; the trash of mountpath 1 is missing or holds
\* entries of earlier moves, the other trashes are missing
InitDestroy ==
    /\ available = <<Mpaths>>
    /\ disabled = <<{}>>
    /\ fsIDs = <<>>
    /\ checkFsID = TRUE
    /\ ios = Mpaths
    /\ xattr = [p \in Mpaths |-> T1]
    /\ wr = <<>>
    /\ ret = Ret("Init", "nil", 0, FALSE, FALSE, <<>>)
    /\ tracing = FALSE
    /\ halted = FALSE
    /\ hist = NoHist
    /\ rd = [pc |-> "idle", avail |-> {}, dis |-> {}, torn |-> FALSE]
    /\ live = [n |-> 0, ok |-> {}]
    /\ dirs \in {d \in [DelDirs -> {"none", "empty", "data"}] :
                    /\ \A mi \in Mpaths \ {1} :
                           /\ d[MakePathTrash(mi)] = "none"
                           /\ \A t \in Nanos : d[TmpDir(mi, t)] = "none"
                    /\ d[MakePathTrash(1)] # "empty"
                    /\ \A t \in Nanos : d[TmpDir(1, t)] # "empty"
                    /\ d[MakePathTrash(1)] = "data"
                           <=> \E t \in Nanos : d[TmpDir(1, t)] = "data"}
    /\ bpc = [mi \in Mpaths |-> <<>>]
    /\ rnRet = <<>>
    /\ IdleTxnVars
    /\ IdleVars

\* the goroutine that runs DestroyBucket keeps running
SpecDestroy == InitDestroy /\ [][NextDestroy]_vars /\ WF_vars(NextDestroy)

\* the mountpaths whose MoveToTrash returned an error
DestroyFailed(c) == {mi \in DOMAIN c.res : c.res[mi] # "nil"}

\* C26. When DestroyBucket has returned: it has called MoveToTrash on every
\* Available mountpath, a mountpath whose bucket directory was missing counts
\* as a success, and it returns an error when most of the mountpaths failed
\* and success when fewer than half of them failed.
C26_DestroyMajority ==
    (lc # <<>> /\ lc[1].op = "DestroyBucket" /\ lc[1].done) =>
        LET c == lc[1]
            f == Cardinality(DestroyFailed(c))
        IN /\ DOMAIN c.res = Get[1]
           /\ \A mi \in Get[1] :
                  c.before[FromDir(mi)] = "none" => c.res[mi] = "nil"
           /\ (2 * f) > c.count => c.err # "nil"
           /\ (2 * f) < c.count => c.err = "nil"

C32_RenameBeforeStart ==
    (/\ IsReq(ActCommit)
     /\ tret[1].action = ActRenameLB
     /\ \E i \in DOMAIN fx : fx[i].op = "RenameBucketDirs")
        => LET at(op) == {i \in DOMAIN fx : fx[i].op = op}
               ren == at("RenameBucketDirs")
           IN IF tret[1].err = "nil"
              THEN /\ \A mi \in Get[1] :
                          dirs[FromDir(mi)] = "none" /\ dirs[ToDir(mi)] # "none"
                   /\ \A i \in at("gfnActivate") \cup at("xactRun") :
                          \E j \in ren : j < i
              ELSE /\ tret[1].err \in {"EIO", "ENOENT", "ENOTEMPTY"}
                   /\ at("gfnActivate") = {}
                   /\ at("xactRun") = {}
                   /\ at("RenewBckFastRename") = {}

----------------------------------------------------------------------------
\* SetBucketProps from any mirror configuration of the bucket

\* the props of bucket "a" in a BMD
PropsInBmd == {BProps(1, FALSE, 1, FALSE), BProps(1, TRUE, 2, FALSE)}
PropsBMDs == {[b \in BckNames |-> IF b = <<"a">> THEN <<p>> ELSE <<>>] :
                 p \in PropsInBmd}
\* the props a set-props message may carry
PropsNew == {BProps(0, FALSE, 1, FALSE), BProps(0, FALSE, 1, TRUE),
             BProps(0, FALSE, 2, FALSE), BProps(0, TRUE, 1, FALSE),
             BProps(0, TRUE, 2, FALSE), BProps(0, TRUE, 2, TRUE),
             BProps(0, TRUE, NumMpaths, FALSE)}

NextProps ==
    \/ \E uuid \in UUIDs, value \in PropsNew : Begin(ActSetBprops, uuid, value)
    \/ \E uuid \in UUIDs : Abort(ActSetBprops, uuid)
    \/ \E uuid \in UUIDs : Commit(ActSetBprops, uuid, 0, <<>>, {})
    \/ \E uuid \in UUIDs : WaitDone(uuid, <<>>, {})
    \/ \E uuid \in UUIDs : WaitTimeout(uuid)
    \/ \E b \in PropsBMDs : BmdInstall(b)
    \/ CapChange

\* as InitTxn, with bucket "a" in the BMD, mirrored or not
InitProps ==
    /\ available = <<Mpaths>>
    /\ disabled = <<{}>>
    /\ fsIDs = <<>>
    /\ checkFsID = TRUE
    /\ ios = Mpaths
    /\ xattr = [p \in Mpaths |-> T1]
    /\ wr = <<>>
    /\ ret = Ret("Init", "nil", 0, FALSE, FALSE, <<>>)
    /\ tracing = TRUE
    /\ halted = FALSE
    /\ hist = NoHist
    /\ rd = [pc |-> "idle", avail |-> {}, dis |-> {}, torn |-> FALSE]
    /\ live = [n |-> 0, ok |-> {}]
    /\ dirs = [p \in RenDirs |-> IF \E mi \in Mpaths : p = FromDir(mi)
                                 THEN "data" ELSE "none"]
    /\ bpc = [mi \in Mpaths |-> <<>>]
    /\ rnRet = <<>>
    /\ txns = [u \in UUIDs |-> <<>>]
    /\ waiting = [u \in UUIDs |-> <<>>]
    /\ bmdVer = 0
    /\ bmdBcks \in PropsBMDs
    /\ capErr = FALSE
    /\ tret = <<>>
    /\ fx = <<>>
    /\ IdleVars

SpecProps == InitProps /\ [][NextProps]_vars

\* the mirror configuration changed materially from b to n
MirrorChanged(b, n) ==
    \/ ~b.Mirror.Enabled /\ n.Mirror.Enabled
    \/ /\ b.Mirror.Enabled
       /\ n.Mirror.Enabled
       /\ b.Mirror.Copies # n.Mirror.Copies

\* C31. A SetBucketProps commit that returns success has aborted PutCopies and
\* renewed MakeNCopies with the new number of copies if the mirror
\* configuration changed materially between the props captured at begin and
\* the new props (mirroring newly enabled, or enabled in both with another
\* number of copies), and has done neither otherwise.
C31_Remirror ==
    [][(/\ WillBeReq(ActCommit)
        /\ tret'[1].action = ActSetBprops
        /\ tret'[1].err = "nil"
        /\ txns[tret'[1].uuid] # <<>>)
          => LET v == txns[tret'[1].uuid][1].val
             IN fx' = IF MirrorChanged(v.bprops, v.nprops)
                      THEN <<Fx("DoAbortPutCopies", 0),
                             Fx("RenewBckMakeNCopies", v.nprops.Mirror.Copies)>>
                      ELSE <<>>]_vars

\* a commit has remirrored a bucket that is not mirrored in the installed BMD
C31_Witness ==
    /\ IsReq(ActCommit)
    /\ tret[1].action = ActSetBprops
    /\ tret[1].err = "nil"
    /\ fx = <<Fx("DoAbortPutCopies", 0), Fx("RenewBckMakeNCopies", 2)>>
    /\ ~bmdBcks[<<"a">>][1].Mirror.Enabled

\* a commit that disabled the mirroring, or changed no mirror props, has
\* returned success without touching the workers
C31_WitnessNone ==
    /\ IsReq(ActCommit)
    /\ tret[1].action = ActSetBprops
    /\ tret[1].err = "nil"
    /\ fx = <<>>

----------------------------------------------------------------------------
\* api/bucket.go: the polling of an asynchronous request

\* time.Millisecond, in nanoseconds
Millisecond == 1000000

\* a time.Duration: ms milliseconds and ns < Millisecond nanoseconds
Dur(ms, ns) == [ms |-> ms, ns |-> ns]
DurLess(a, b) == a.ms < b.ms \/ (a.ms = b.ms /\ a.ns < b.ns)
\* a / 2, the integer division of the nanoseconds
DurHalf(a) ==
    Dur(a.ms \div 2, (a.ns + ((a.ms % 2) * Millisecond)) \div 2)
DurAdd(a, b) ==
    Dur(a.ms + b.ms + ((a.ns + b.ns) \div Millisecond),
        (a.ns + b.ns) % Millisecond)

initialPollInterval == Dur(50, 0)
maxPollInterval == Dur(10000, 0)

\* the status codes of a response
StatusOK == "200"
StatusAccepted == "202"
StatusUnavailable == "503"

\* the polls of one call
MaxPolls == 16

\* variant: the interval stops at the maximum
nextSleepClamped(sleep) ==
    LET grown == DurAdd(sleep, DurHalf(sleep))
    IN IF DurLess(maxPollInterval, grown) THEN maxPollInterval ELSE grown

\* the update of sleep at the end of an iteration
nextSleep(sleep) ==
    IF DurLess(sleep, maxPollInterval) THEN DurAdd(sleep, DurHalf(sleep))
    ELSE sleep

\* waitForAsyncReqComplete up to its loop. msgUUID: msg.UUID as passed in,
\* <<>> when empty; resp: the error or the status code of the first response,
\* which carries the id of the new task
WaitForAsyncReqComplete(msgUUID, resp) ==
    /\ lc = <<>>
    /\ lc' = <<[op |-> "waitForAsyncReqComplete",
                uuid |-> IF resp = StatusAccepted /\ msgUUID = <<>>
                         THEN <<"u1">> ELSE msgUUID,
                sleep |-> initialPollInterval,
                delays |-> <<>>,
                last |-> resp,
                done |-> resp # StatusAccepted,
                err |-> IF resp = "err" THEN "err"
                        ELSE IF resp = StatusAccepted THEN "nil"
                        ELSE IF resp = StatusOK THEN "ErrExpected202"
                        ELSE "ErrInvalidResponseCode"]>>
    /\ UNCHANGED <<mfsVars, getVars, renVars, txnVars, capVars, pathVars, boot>>

\* one iteration of the loop: the request, and unless it failed or returned
\* StatusOK, the sleep and the update of the interval
PollOnce(resp) ==
    /\ lc # <<>>
    /\ lc[1].op = "waitForAsyncReqComplete"
    /\ ~lc[1].done
    /\ Len(lc[1].delays) < MaxPolls
    /\ lc' = <<IF resp = "err"
               THEN [lc[1] EXCEPT !.last = resp, !.done = TRUE, !.err = "err"]
               ELSE IF resp = StatusOK
               THEN [lc[1] EXCEPT !.last = resp, !.done = TRUE]
               ELSE [lc[1] EXCEPT !.last = resp,
                                  !.delays = Append(@, lc[1].sleep),
                                  !.sleep = nextSleep(@)]>>
    /\ UNCHANGED <<mfsVars, getVars, renVars, txnVars, capVars, pathVars, boot>>

Responses == {"err", StatusOK, StatusAccepted, StatusUnavailable}

NextPoll ==
    \/ \E msgUUID \in {<<>>, <<"u2">>}, resp \in Responses :
           WaitForAsyncReqComplete(msgUUID, resp)
    \/ \E resp \in Responses : PollOnce(resp)

InitPoll ==
    /\ InitMfsVars
    /\ xattr = [p \in Mpaths |-> NoTid]
    /\ tracing = FALSE
    /\ hist = NoHist
    /\ IdleRenVars /\ IdleTxnVars /\ IdleVars

SpecPoll == InitPoll /\ [][NextPoll]_vars

\* C33. While an asynchronous request is polled, the first delay between two
\* polls is the initial interval, each further delay is the one before it
\* grown by half (or the maximum, where growing by half would pass it), and no
\* delay exceeds the 10-second maximum.
C33_PollInterval ==
    (lc # <<>> /\ lc[1].op = "waitForAsyncReqComplete") =>
        LET d == lc[1].delays
            grown(x) == DurAdd(x, DurHalf(x))
        IN /\ d # <<>> => d[1] = initialPollInterval
           /\ \A i \in DOMAIN d : ~DurLess(maxPollInterval, d[i])
           /\ \A i \in DOMAIN d : i > 1 =>
                  d[i] = IF DurLess(maxPollInterval, grown(d[i - 1]))
                         THEN maxPollInterval ELSE grown(d[i - 1])

----------------------------------------------------------------------------
\* fs/mountfs.go: the maps behind mfs.available and mfs.disabled as objects.
\* h (kept in lc): objs, the key set of each map object; a and d, the objects
\* last passed to updatePaths (0: none yet); dOld, the one mfs.disabled still
\* points to between the two stores; held, the pair of maps a caller got from
\* Get() together with the key sets they had then.

MaxObjs == 8
Objs == 1..MaxObjs

IsHeap == lc # <<>> /\ lc[1].op = "heap"

HeapLive(h) ==
    {h.a, h.d, h.dOld}
        \cup (IF h.held = <<>> THEN {} ELSE {h.held[1].a, h.held[1].d})

\* make(MPI): a map object that nothing refers to
makeMPI(used) == CHOOSE i \in Objs \ used : \A j \in Objs \ used : i <= j

\* the references of h in a fixed order (0: no map)
heapRefs(h) ==
    <<h.a, h.d, h.dOld>>
        \o (IF h.held = <<>> THEN <<>> ELSE <<h.held[1].a, h.held[1].d>>)

\* The map objects nothing refers to any more are gone, and the others are
\* named in the order of heapRefs: which number a map object carries is of no
\* consequence, only which references share one.
collect(h) ==
    LET refs == heapRefs(h)
        name(i) ==
            IF i = 0 THEN 0
            ELSE LET first == CHOOSE k \in 1..Len(refs) :
                                  refs[k] = i /\ \A j \in 1..(k - 1) : refs[j] # i
                 IN Cardinality({refs[j] : j \in 1..first} \ {0})
        named(n) == {i \in HeapLive(h) \ {0} : name(i) = n}
    IN [op |-> h.op,
        objs |-> [n \in Objs |->
                     IF named(n) = {} THEN {}
                     ELSE h.objs[CHOOSE i \in named(n) : TRUE]],
        a |-> name(h.a), d |-> name(h.d), dOld |-> name(h.dOld),
        held |-> IF h.held = <<>> THEN <<>>
                 ELSE <<[h.held[1] EXCEPT !.a = name(@), !.d = name(@)]>>]

\* Get() on the pointers pa and pd: a nil pointer reads as a new empty map
heapGet(h, pa, pd) ==
    LET get(a1) ==
            LET d1 == IF pd = 0 THEN makeMPI(HeapLive(h) \cup {a1}) ELSE pd
            IN [a |-> a1, d |-> d1,
                objs |-> [i \in Objs |->
                             IF (i = a1 /\ pa = 0) \/ (i = d1 /\ pd = 0) THEN {}
                             ELSE h.objs[i]]]
    IN get(IF pa = 0 THEN makeMPI(HeapLive(h)) ELSE pa)

\* variant: the mutation works on the maps Get() returned
cloneMPIShared(h) == heapGet(h, h.a, h.d)

\* cloneMPI: two new maps with the entries of the ones Get() returned
cloneMPI(h) ==
    LET copy(g, ac) ==
            LET dc == makeMPI(HeapLive(h) \cup {g.a, g.d, ac})
            IN [a |-> ac, d |-> dc,
                objs |-> [g.objs EXCEPT ![ac] = g.objs[g.a], ![dc] = g.objs[g.d]]]
        got(g) == copy(g, makeMPI(HeapLive(h) \cup {g.a, g.d}))
    IN got(heapGet(h, h.a, h.d))

\* InitMpaths' two make(MPI)
makeMPIs(h) ==
    LET two(ac) == [a |-> ac, d |-> makeMPI(HeapLive(h) \cup {ac}),
                    objs |-> h.objs]
    IN two(makeMPI(HeapLive(h)))

\* the call worked on the maps c.a and c.d and left them as st says;
\* updatePaths(c.a, c.d) if it reached it
heapStore(h, c, st) ==
    LET objs1 == [c.objs EXCEPT ![c.a] = st.avail, ![c.d] = st.dis]
    IN collect(IF st.pub
               THEN [h EXCEPT !.objs = objs1, !.a = c.a, !.d = c.d, !.dOld = h.d]
               ELSE [h EXCEPT !.objs = objs1])

\* a registry call on the map objects
SnapCall(c, st, r) ==
    /\ Apply(st, r)
    /\ lc' = <<heapStore(lc[1], c, st)>>
    /\ UNCHANGED <<checkFsID, tracing, rd, renVars, txnVars, capVars, pathVars, boot>>

SnapInitMpaths(order, vmd) ==
    /\ muFree
    /\ IsHeap
    /\ available = <<>>
    /\ LET init(st) ==
               /\ SnapCall(makeMPIs(lc[1]), st,
                           Ret("InitMpaths", st.err, 0, st.changed, FALSE, <<>>))
               /\ halted' = (st.err # "nil")
       IN init(initMpaths(order, T1, vmd))

SnapAdd(mpath, tid) ==
    /\ muFree
    /\ IsHeap
    /\ LET nm == newMountpath(mpath)
           st == IF nm.err # "nil" THEN [Clone EXCEPT !.err = nm.err]
                 ELSE addEnabledDisabled(nm.clean, tid, TRUE, Clone)
       IN SnapCall(cloneMPI(lc[1]), st,
                   Ret("Add", st.err, nm.clean, FALSE, FALSE, <<>>))
    /\ UNCHANGED halted

SnapEnable(mpath) ==
    /\ muFree
    /\ IsHeap
    /\ LET v == ValidateMpath(mpath)
           st == IF v.err # "nil" THEN [Clone EXCEPT !.err = v.err]
                 ELSE enable(v.clean, NoTid, Clone)
       IN SnapCall(cloneMPI(lc[1]), st,
                   Ret("Enable", st.err, IF st.pub THEN v.clean ELSE 0,
                       FALSE, FALSE, <<>>))
    /\ UNCHANGED halted

SnapDisable(mpath) ==
    /\ muFree
    /\ IsHeap
    /\ LET v == ValidateMpath(mpath)
           st == IF v.err # "nil" THEN [Clone EXCEPT !.err = v.err]
                 ELSE disable(v.clean, Clone)
       IN SnapCall(cloneMPI(lc[1]), st,
                   Ret("Disable", st.err, IF st.pub THEN v.clean ELSE 0,
                       FALSE, FALSE, <<>>))
    /\ UNCHANGED halted

SnapRemove(mpath) ==
    /\ muFree
    /\ IsHeap
    /\ LET v == ValidateMpath(mpath)
           st == IF v.err # "nil" THEN [Clone EXCEPT !.err = v.err]
                 ELSE remove(v.clean, Clone)
       IN SnapCall(cloneMPI(lc[1]), st,
                   Ret("Remove", st.err, IF st.pub THEN v.clean ELSE 0,
                       FALSE, FALSE, <<>>))
    /\ UNCHANGED halted

\* a caller that holds no lock calls Get() and keeps the two maps
SnapGet ==
    /\ IsHeap
    /\ lc[1].held = <<>>
    /\ LET h == lc[1]
           keep(g) ==
               [h EXCEPT !.objs = g.objs,
                         !.held = <<[a |-> g.a, d |-> g.d,
                                     keysA |-> g.objs[g.a],
                                     keysD |-> g.objs[g.d]]>>]
       IN lc' = <<collect(keep(heapGet(h, h.a, IF wr # <<>> THEN h.dOld ELSE h.d)))>>
    /\ UNCHANGED <<mfsVars, getVars, renVars, txnVars, capVars, pathVars, boot>>

\* the caller lets go of the two maps
SnapDrop ==
    /\ IsHeap
    /\ lc[1].held # <<>>
    /\ lc' = <<collect([lc[1] EXCEPT !.held = <<>>])>>
    /\ UNCHANGED <<mfsVars, getVars, renVars, txnVars, capVars, pathVars, boot>>

NextSnap ==
    \/ \E order \in ConfigOrders : SnapInitMpaths(order, <<>>)
    \/ \E mpath \in Mpaths : SnapAdd(mpath, T1)
    \/ \E mpath \in Mpaths : SnapEnable(mpath)
    \/ \E mpath \in Mpaths : SnapDisable(mpath)
    \/ \E mpath \in Mpaths : SnapRemove(mpath)
    \/ StoreDisabled
    \/ SnapGet
    \/ SnapDrop

InitSnap ==
    /\ InitMfsVars
    /\ tracing = FALSE
    /\ hist = NoHist
    /\ IdleRenVars /\ IdleTxnVars /\ IdleCapVars /\ IdlePathVars
    /\ boot = NoBoot
    /\ lc = <<[op |-> "heap", objs |-> [i \in Objs |-> {}], a |-> 0, d |-> 0,
               dOld |-> 0, held |-> <<>>]>>

SpecSnap == InitSnap /\ [][NextSnap]_vars

\* C36. A published snapshot is immutable: the two maps a caller got from
\* Get() keep the key sets they had, through every InitMpaths, Add, Enable,
\* Disable and Remove that follows.
C36_SnapshotImmutable ==
    (IsHeap /\ lc[1].held # <<>>) =>
        /\ lc[1].objs[lc[1].held[1].a] = lc[1].held[1].keysA
        /\ lc[1].objs[lc[1].held[1].d] = lc[1].held[1].keysD

\* a caller holds two published maps that later mutations have both replaced
\* by maps with other keys
C36_Witness ==
    /\ IsHeap
    /\ wr = <<>>
    /\ lc[1].held # <<>>
    /\ lc[1].held[1].keysA # {}
    /\ lc[1].held[1].keysD # {}
    /\ lc[1].held[1].a # lc[1].a
    /\ lc[1].held[1].d # lc[1].d
    /\ GetAvail(available) # lc[1].held[1].keysA
    /\ GetAvail(disabled) # lc[1].held[1].keysD

----------------------------------------------------------------------------
\* fs/mountfs.go: RefreshCapStatus by callers that run side by side. Each
\* computes its status in locals and then stores it under mfs.cmu. Kept in
\* lc: w, what each caller is about to store; last, what the last refresh
\* that succeeded computed.

Refreshers == {"r1", "r2"}

IsRefresh == lc # <<>> /\ lc[1].op = "RefreshCapStatus"

\* variant: the fields of the cached status are stored one by one, and the
\* store can stop half way
capStoreByField(cs0, cs) == [cs EXCEPT !.TotalAvail = cs0.TotalAvail]

\* mfs.capStatus = cs
capStore(cs0, cs) == cs

\* RefreshCapStatus down to mfs.cmu.Lock(), or to its return with an error
RefreshCompute(p, config0, order, sf) ==
    /\ IsRefresh
    /\ lc[1].w[p] = <<>>
    /\ LET done(w) ==
               /\ capacity' = w.capacity
               /\ IF w.cached
                  THEN /\ lc' = <<[lc[1] EXCEPT !.w[p] =
                                     <<[cs |-> w.cs, mpcap |-> w.mpcap,
                                        config |-> w.config,
                                        avail |-> Get[1]]>>]>>
                       /\ UNCHANGED capRet
                  ELSE /\ capRet' = <<[cs |-> w.cs, err |-> w.err,
                                       mpcap |-> w.mpcap, config |-> w.config,
                                       avail |-> Get[1]]>>
                       /\ UNCHANGED lc
       IN done(refreshCapStatus(config0, order, sf, capacity))
    /\ UNCHANGED <<capStatus, capTime, putRet>>
    /\ UNCHANGED <<mfsVars, getVars, renVars, txnVars, pathVars, boot>>

\* RefreshCapStatus from mfs.cmu.Lock() to its return
RefreshStore(p) ==
    /\ IsRefresh
    /\ lc[1].w[p] # <<>>
    /\ LET w == lc[1].w[p][1] IN
         /\ capStatus' = capStore(capStatus, w.cs)
         /\ capTime' = [curr |-> 0, next |-> nextRefresh(w.config, capStatus')]
         /\ capRet' = <<[cs |-> w.cs, err |-> "nil", mpcap |-> w.mpcap,
                         config |-> w.config, avail |-> w.avail]>>
         /\ lc' = <<[lc[1] EXCEPT !.w[p] = <<>>, !.last = <<w>>]>>
    /\ UNCHANGED <<capacity, putRet>>
    /\ UNCHANGED <<mfsVars, getVars, renVars, txnVars, pathVars, boot>>

NextRefresh ==
    \/ \E p \in Refreshers, config0 \in Configs, order \in Orders(Get[1]),
          sf \in StatfsAll(Get[1]) : RefreshCompute(p, config0, order, sf)
    \/ \E p \in Refreshers : RefreshStore(p)
    \/ \E mpath \in Mpaths : Disable(mpath, FALSE)
    \/ StoreDisabled

\* a booted target with one or two Available mountpaths; nobody refreshes
InitRefresh ==
    /\ \E S \in {{1}, {1, 2}} :
         /\ available = <<S>>
         /\ disabled = <<Mpaths \ S>>
         /\ ios = S
    /\ fsIDs = <<>>
    /\ checkFsID = FALSE
    /\ xattr = [p \in Mpaths |-> T1]
    /\ wr = <<>>
    /\ ret = Ret("Init", "nil", 0, FALSE, FALSE, <<>>)
    /\ tracing = FALSE
    /\ halted = FALSE
    /\ hist = NoHist
    /\ rd = [pc |-> "idle", avail |-> {}, dis |-> {}, torn |-> FALSE]
    /\ live = [n |-> 0, ok |-> {}]
    /\ IdleRenVars
    /\ IdleTxnVars
    /\ IdleCapVars
    /\ IdlePathVars
    /\ boot = NoBoot
    /\ lc = <<[op |-> "RefreshCapStatus", w |-> [p \in Refreshers |-> <<>>],
               last |-> <<>>]>>

SpecRefresh == InitRefresh /\ [][NextRefresh]_vars

\* r.cs is the aggregate of the capacities r.mpcap of the mountpaths r.avail
CompleteStatus(r) ==
    /\ r.avail # {}
    /\ DOMAIN r.mpcap = r.avail
    /\ r.cs.TotalUsed = SumOver([p \in r.avail |-> r.mpcap[p].Used], r.avail)
    /\ r.cs.TotalAvail = SumOver([p \in r.avail |-> r.mpcap[p].Avail], r.avail)
    /\ \A p \in r.avail : r.mpcap[p].PctUsed <= r.cs.PctMax
    /\ \E p \in r.avail : r.mpcap[p].PctUsed = r.cs.PctMax
    /\ r.cs.OOS <=> r.cs.PctMax > r.config.OOS

\* C39. A RefreshCapStatus that fails (no Available mountpaths, or a statfs
\* error on a mountpath) leaves the cached status and the scheduled
\* next-refresh time as they were; GetCapStatus returns the result of the last
\* refresh that succeeded; and with refreshes running side by side the cached
\* status is one complete computed status, never a mix of two.
C39_CapCache ==
    /\ [](IsRefresh =>
            /\ lc[1].last = <<>> =>
                 GetCapStatus = NoCapStatus /\ capTime = [curr |-> 0, next |-> 0]
            /\ lc[1].last # <<>> =>
                 /\ GetCapStatus = lc[1].last[1].cs
                 /\ CompleteStatus(lc[1].last[1])
                 /\ capTime.next = nextRefresh(lc[1].last[1].config, lc[1].last[1].cs))
    /\ [][(capRet' # <<>> /\ capRet'[1].err # "nil") =>
            (capStatus' = capStatus /\ capTime' = capTime)]_vars

\* a refresh failed on statfs after another one succeeded, while a third has
\* computed another status and not stored it yet
C39_Witness ==
    /\ IsRefresh
    /\ lc[1].last # <<>>
    /\ capRet # <<>>
    /\ capRet[1].err = "EIO"
    /\ capRet[1].cs # NoCapStatus
    /\ \E p \in Refreshers :
         /\ lc[1].w[p] # <<>>
         /\ lc[1].w[p][1].cs # capStatus

\* a refresh found no Available mountpath after another one succeeded
C39_WitnessNoMountpaths ==
    /\ IsRefresh
    /\ lc[1].last # <<>>
    /\ capRet # <<>>
    /\ capRet[1].err = "ErrNoMountpaths"
    /\ capStatus # NoCapStatus

====
